---- MODULE Spec2Model ----
(***************************************************************************)
(* Secure blob storage of the SDO client SDK (storage_if_linux.c):         *)
(* sdoBlobSize, sdoBlobRead and sdoBlobWrite over a file system and the    *)
(* platform IV (nonce) slot.                                               *)
(*                                                                         *)
(* Bytes are integers 0..255, a file is a sequence of bytes.  The helpers  *)
(* the storage layer calls but whose code is in other files of the         *)
(* repository (getPlatformIV, getPlatformAESKey, read_buffer_from_file,    *)
(* sdoComputeStorageHMAC, sdoCryptoAESGcmEncrypt/Decrypt, sdoAlloc) are     *)
(* modelled from the specification's contracts for them.  The 96-bit nonce *)
(* is an integer modulo NonceSpace, the stand-in for 2^96.                 *)
(*                                                                         *)
(* Protocol state machine of the SDK (sdoprot.c): sdo_process_states with  *)
(* ps_free and sdoSendErrorMessage, the init functions and                 *)
(* sdoCheckTO2RoundTrips.  The state functions msg10 .. msg51 are in other *)
(* files; one invocation of a state function is an input of the model.     *)
(***************************************************************************)
EXTENDS Integers, Sequences, FiniteSets, TLC

VARIABLES
    files,      \* name -> [exists, bytes]: the blob files on disk
    slot,       \* the platform IV slot: [init, base, counter] (persistent)
    emitted,    \* history: the nonces getPlatformIV has handed out, in order
    stored,     \* history: name -> the blob the last write reported as stored
    last,       \* the most recent API call and what it returned (volatile)
    pc,         \* thread -> position inside a sealed sdoBlobWrite
    loc,        \* thread -> the locals of that sdoBlobWrite (volatile)
    lock,       \* holder of the nonce slot's exclusive lock, 0 when free
    ps,         \* the protocol state SDOProt_t (sdoprot.c)
    sdow,       \* the error blocks written since the last protocol call began
    fr,         \* the activation record of sdo_process_states
    res,        \* the most recent init or round trip call and its result
    doubleFree  \* history: a block was freed that was not allocated any more

storageVars == <<files, slot, emitted, stored, last, pc, loc, lock>>
protVars == <<ps, sdow, fr, res, doubleFree>>
vars == <<files, slot, emitted, stored, last, pc, loc, lock, ps, sdow, fr, res, doubleFree>>

(* ------------------------------ bounds -------------------------------- *)
\* Largest payload the store accepts (the build-time R_MAX_SIZE).
R_MAX_SIZE == 2
\* Payload bytes are drawn from 1..MaxByte.
MaxByte == 1
\* Size of the nonce space (2^96 in the program).
NonceSpace == 3
\* A tampered byte becomes (old + d) % 256 for d in 1..MaxFlip.
MaxFlip == 1
\* Blob names are 1..NumNames.
NumNames == 1
\* Concurrent writer threads are 1..NumThreads.
NumThreads == 2

(* ------------------------- program constants -------------------------- *)
PLATFORM_HMAC_SIZE == 32
BLOB_CONTENT_SIZE == 4
PLATFORM_IV_DEFAULT_LEN == 12
PLATFORM_GCM_TAG_SIZE == 16
\* Number of AES blocks per 2^16: blocks < 2^32 iff (blocks \div 2^16) < 2^16.
TWO16 == 65536
AES_BLOCK == 16

SDO_SDK_RAW_DATA == "RAW"
SDO_SDK_NORMAL_DATA == "NORMAL"
SDO_SDK_SECURE_DATA == "SECURE"
SDO_SDK_OTP_DATA == "OTP"
Flags == {SDO_SDK_RAW_DATA, SDO_SDK_NORMAL_DATA, SDO_SDK_SECURE_DATA, SDO_SDK_OTP_DATA}
Modes == {SDO_SDK_RAW_DATA, SDO_SDK_NORMAL_DATA, SDO_SDK_SECURE_DATA}

Names == 1..NumNames
Threads == 1..NumThreads
\* Thread t of the concurrent writers stores the blob named NumNames + t.
ThreadName(t) == NumNames + t
AllNames == 1..(NumNames + NumThreads)
Nonces == 0..(NonceSpace - 1)

(* ------------------------------ bytes --------------------------------- *)
Fill(n, b) == [i \in 1..n |-> b]
Take(s, n) == SubSeq(s, 1, n)
IsZero(s) == \A i \in 1..Len(s) : s[i] = 0

RECURSIVE SumSeq(_)
SumSeq(s) == IF s = <<>> THEN 0 ELSE Head(s) + SumSeq(Tail(s))

RECURSIVE SeqsUpTo(_, _)
\* All sequences over S of length 1..n.
SeqsUpTo(S, n) ==
    IF n = 0 THEN {}
    ELSE LET shorter == SeqsUpTo(S, n - 1)
         IN  {<<b>> : b \in S} \cup shorter
                 \cup {Append(s, b) : s \in {x \in shorter : Len(x) = n - 1}, b \in S}

\* The 4-byte big-endian length field as the write path stores it.
StoreLen(n) ==
    << (n \div 16777216) % 256, (n \div 65536) % 256, (n \div 256) % 256, n % 256 >>

\* The uint32 length the read path rebuilds from the 4 bytes after offset
\* off, held as its two 16-bit halves: the length is hi * 2^16 + lo.  With a
\* first byte of 128 or more the shift by 24 leaves the range of int; the
\* builds deliver the uint32 value all the same, which is what the halves
\* carry (128, 0, 0, 0 is hi = 32768, lo = 0, that is 2^31).
LoadLen(s, off) ==
    [hi |-> s[off + 1] * 256 + s[off + 2], lo |-> s[off + 3] * 256 + s[off + 4]]

\* nBytes < dataLength for a uint32 nBytes and a length in halves.
LenExceeds(dataLength, nBytes) ==
    \/ dataLength.hi > nBytes \div TWO16
    \/ dataLength.hi = nBytes \div TWO16 /\ dataLength.lo > nBytes % TWO16

\* The length in halves as a number, for a length below 2^31.
LenValue(dataLength) == dataLength.hi * TWO16 + dataLength.lo

\* The 12-byte big-endian image of a nonce.
IvBytes(n) ==
    [i \in 1..PLATFORM_IV_DEFAULT_LEN |->
        IF i = PLATFORM_IV_DEFAULT_LEN THEN n % 256
        ELSE IF i = PLATFORM_IV_DEFAULT_LEN - 1 THEN (n \div 256) % 256
        ELSE 0]

(* --------------------------- platform keys ---------------------------- *)
\* Key buffers are one cell wide: the cell is 0 when wiped.
ZeroKey == <<0>>
PlatformAESKey == <<165>>
PlatformHMACKey == <<90>>

getPlatformAESKey(fault) ==
    IF fault = "key" THEN [ok |-> FALSE, key |-> ZeroKey]
    ELSE [ok |-> TRUE, key |-> PlatformAESKey]

(* -------------------------- crypto primitives ------------------------- *)
\* HMAC-SHA-256 stand-in: deterministic, 32 bytes, and distinct for distinct
\* messages of up to 31 bytes (the ideal-MAC assumption within the bounds).
sdoComputeStorageHMAC(data) ==
    [i \in 1..PLATFORM_HMAC_SIZE |->
        IF i = 1 THEN Len(data) % 256
        ELSE IF i - 1 <= Len(data) THEN (data[i - 1] + PlatformHMACKey[1]) % 256
        ELSE PlatformHMACKey[1]]

KeyStream(iv, key, i) == (SumSeq(iv) + key[1] + 7 * i) % 256

\* AES-GCM tag stand-in: 16 bytes bound to the key, the nonce and the
\* ciphertext; any single changed byte of nonce or ciphertext changes it.
GcmTag(ct, iv, key) ==
    [i \in 1..PLATFORM_GCM_TAG_SIZE |->
        IF i = 1 THEN Len(ct) % 256
        ELSE IF i = 2 THEN (SumSeq(iv) + key[1]) % 256
        ELSE IF i - 2 <= Len(ct) THEN (ct[i - 2] + key[1]) % 256
        ELSE key[1]]

\* |ct| = |pt|, |tag| = 16.
sdoCryptoAESGcmEncrypt(pt, iv, key) ==
    LET ct == [i \in 1..Len(pt) |-> (pt[i] + KeyStream(iv, key, i)) % 256]
    IN  [ct |-> ct, tag |-> GcmTag(ct, iv, key)]

\* Plaintext, or failure with no bytes delivered when the tag does not verify.
sdoCryptoAESGcmDecrypt(ct, iv, key, tag) ==
    IF GcmTag(ct, iv, key) # tag THEN [ok |-> FALSE, pt |-> <<>>]
    ELSE [ok |-> TRUE,
          pt |-> [i \in 1..Len(ct) |-> (ct[i] - KeyStream(iv, key, i) + 512) % 256]]

(* ---------------------------- file helpers ---------------------------- *)
NoFile == [exists |-> FALSE, bytes |-> <<>>]
FileOf(b) == [exists |-> TRUE, bytes |-> b]

file_exists(F, name) == F[name].exists
get_file_size(F, name) == Len(F[name].bytes)

\* Reads the bytes of the file into a buffer of `size` bytes whose earlier
\* content is `dst`: the buffer gets the first `size` bytes of the file, all
\* of them when the file holds fewer, and keeps its content beyond them.
\* Fails when the file is absent.  Whether the buffer is long enough for the
\* payload is for the caller to check.
read_buffer_from_file(F, name, dst, size) ==
    IF ~F[name].exists
    THEN [ok |-> FALSE, buf |-> dst]
    ELSE [ok |-> TRUE,
          buf |-> [i \in 1..size |->
                     IF i <= Len(F[name].bytes) THEN F[name].bytes[i] ELSE dst[i]]]

\* sdoAlloc hands out zeroed memory.
sdoAlloc(n) == Fill(n, 0)

\* safestringlib memcpy_s(dest, dmax, src, smax): refuses smax = 0 and
\* smax > dmax (and then clears dest).
memcpy_s(dest, src) ==
    IF Len(src) = 0 \/ Len(src) > Len(dest)
    THEN [ok |-> FALSE, buf |-> Fill(Len(dest), 0)]
    ELSE [ok |-> TRUE,
          buf |-> [i \in 1..Len(dest) |-> IF i <= Len(src) THEN src[i] ELSE dest[i]]]

(* ---------------------------- nonce manager --------------------------- *)
EmptySlot == [init |-> FALSE, base |-> 0, counter |-> 0]

\* Mutant of IvStep: the IV is always incremented by 2.
IvStepAlwaysTwo(datalen) == 2

\* Increment of the IV for a payload of datalen bytes: 1 when the number of
\* AES blocks is below 2^32, else 2.
IvStep(datalen) ==
    LET blocks == datalen \div AES_BLOCK
    IN  IF (blocks \div TWO16) < TWO16 THEN 1 ELSE 2

\* Mutant of Rollover: the incremented value is compared with zero, not
\* with the original value.
RolloverAtZero(S, step) ==
    \E i \in 1..step : (S.counter + i) % NonceSpace = 0

\* The IV has rolled over when the advance from counter by step comes back
\* to base or goes through it.  For a step of 1 this is the comparison of
\* the incremented value with the original value.
Rollover(S, step) ==
    \E i \in 1..step : (S.counter + i) % NonceSpace = S.base

\* Mutant of AdvanceIV: an advance moves base along with the counter.
AdvanceIVMovesBase(S, rnd, step) ==
    IF ~S.init
    THEN [ok |-> TRUE, iv |-> rnd, slot |-> [init |-> TRUE, base |-> rnd, counter |-> rnd]]
    ELSE IF Rollover(S, step)
    THEN [ok |-> FALSE, iv |-> -1, slot |-> S]
    ELSE LET c == (S.counter + step) % NonceSpace
         IN  [ok |-> TRUE, iv |-> c, slot |-> [S EXCEPT !.counter = c, !.base = c]]

\* First use: a random value rnd becomes base and counter and is the nonce.
\* Later: counter advances by the step and is persisted before it is handed
\* out, unless the advance rolls over, which fails and leaves the slot.
AdvanceIV(S, rnd, step) ==
    IF ~S.init
    THEN [ok |-> TRUE, iv |-> rnd, slot |-> [init |-> TRUE, base |-> rnd, counter |-> rnd]]
    ELSE IF Rollover(S, step)
    THEN [ok |-> FALSE, iv |-> -1, slot |-> S]
    ELSE LET c == (S.counter + step) % NonceSpace
         IN  [ok |-> TRUE, iv |-> c, slot |-> [S EXCEPT !.counter = c]]

getPlatformIV(S, rnd, datalen) == AdvanceIV(S, rnd, IvStep(datalen))

\* The slot alone tells that the nonce space is used up.
Exhausted(S) == S.init /\ Rollover(S, 1)

(* ----------------------------- sdoBlobSize ---------------------------- *)
\* The types the constant R_MAX_SIZE may have in a build: it is defined in a
\* header of the platform, and retval > R_MAX_SIZE is evaluated in the type
\* the usual arithmetic conversions give for an int32_t and that constant.
R_MAX_SIZE_Types == {"int", "unsigned long"}

\* end: retval > R_MAX_SIZE.  With an int constant the comparison is that of
\* two signed numbers and a negative retval is returned as it is; with an
\* unsigned long constant retval is converted and a negative retval is a
\* value above R_MAX_SIZE.  F and S are the files and the nonce slot as the
\* call leaves them.
SizeEnd(F, S, retval, rmax) ==
    LET above == IF rmax = "int" THEN retval > R_MAX_SIZE
                 ELSE retval < 0 \/ retval > R_MAX_SIZE
    IN  [retval |-> IF above THEN -1 ELSE retval, files |-> F, slot |-> S]

\* fault = "null" stands for a call with name == NULL.
sdoBlobSize(F, S, name, flags, fault, rmax) ==
    IF fault = "null" THEN SizeEnd(F, S, -1, rmax)
    ELSE IF ~file_exists(F, name) THEN SizeEnd(F, S, 0, rmax)
    ELSE CASE flags = SDO_SDK_RAW_DATA -> SizeEnd(F, S, get_file_size(F, name), rmax)
           [] flags = SDO_SDK_NORMAL_DATA ->
                SizeEnd(F, S, get_file_size(F, name) - PLATFORM_HMAC_SIZE
                                  - BLOB_CONTENT_SIZE, rmax)
           [] flags = SDO_SDK_SECURE_DATA ->
                SizeEnd(F, S, get_file_size(F, name) - PLATFORM_GCM_TAG_SIZE
                                  - PLATFORM_IV_DEFAULT_LEN - BLOB_CONTENT_SIZE, rmax)
           [] OTHER -> SizeEnd(F, S, -1, rmax)

(* ----------------------------- sdoBlobRead ---------------------------- *)
\* exit: the local key copy is cleared; a failing memset_s turns the result
\* into -1.  F and S are the files and the nonce slot as the call leaves
\* them.
ReadExit(F, S, retval, buf, key, fault) ==
    IF fault = "wipe"
    THEN [retval |-> -1, buf |-> buf, aes_key |-> key, files |-> F, slot |-> S]
    ELSE [retval |-> retval, buf |-> buf, aes_key |-> ZeroKey, files |-> F, slot |-> S]

NormalHdr == PLATFORM_HMAC_SIZE + BLOB_CONTENT_SIZE
SecureHdr == PLATFORM_IV_DEFAULT_LEN + PLATFORM_GCM_TAG_SIZE + BLOB_CONTENT_SIZE

\* Mutant of ReadNormalVerify: the result of the comparison is not looked at.
ReadNormalNoCompare(buf, data, storedHmac, computedHmac) ==
    memcpy_s(buf, data)

\* The caller's buffer after the HMAC of data was compared with storedHmac.
ReadNormalVerify(buf, data, storedHmac, computedHmac) ==
    IF storedHmac # computedHmac THEN [ok |-> FALSE, buf |-> buf]
    ELSE memcpy_s(buf, data)

\* Mutant of ReadNormal: the payload length is taken from the size of the
\* file, not from the length field.
ReadNormalLengthOfFile(F, S, name, buf, nBytes, fault) ==
    LET sealedDataLen == NormalHdr + nBytes
        rd            == read_buffer_from_file(F, name, sdoAlloc(sealedDataLen), sealedDataLen)
        sealedData    == rd.buf
        dataLength    == get_file_size(F, name) - NormalHdr
        storedHmac    == Take(sealedData, PLATFORM_HMAC_SIZE)
        data          == SubSeq(sealedData, NormalHdr + 1, NormalHdr + dataLength)
        v             == ReadNormalVerify(buf, data, storedHmac, sdoComputeStorageHMAC(data))
    IN  IF fault = "alloc" \/ ~rd.ok THEN ReadExit(F, S, -1, buf, ZeroKey, fault)
        ELSE IF nBytes < dataLength THEN ReadExit(F, S, -1, buf, ZeroKey, fault)
        ELSE IF fault = "hmac" THEN ReadExit(F, S, -1, buf, ZeroKey, fault)
        ELSE IF ~v.ok THEN ReadExit(F, S, -1, v.buf, ZeroKey, fault)
        ELSE ReadExit(F, S, nBytes, v.buf, ZeroKey, fault)

ReadNormal(F, S, name, buf, nBytes, fault) ==
    LET sealedDataLen == NormalHdr + nBytes
        rd            == read_buffer_from_file(F, name, sdoAlloc(sealedDataLen), sealedDataLen)
        sealedData    == rd.buf
        dataLength    == LoadLen(sealedData, PLATFORM_HMAC_SIZE)
        storedHmac    == Take(sealedData, PLATFORM_HMAC_SIZE)
        data          == SubSeq(sealedData, NormalHdr + 1, NormalHdr + LenValue(dataLength))
        v             == ReadNormalVerify(buf, data, storedHmac, sdoComputeStorageHMAC(data))
    IN  IF fault = "alloc" \/ ~rd.ok THEN ReadExit(F, S, -1, buf, ZeroKey, fault)
        ELSE IF LenExceeds(dataLength, nBytes) THEN ReadExit(F, S, -1, buf, ZeroKey, fault)
        ELSE IF fault = "hmac" THEN ReadExit(F, S, -1, buf, ZeroKey, fault)
        ELSE IF ~v.ok THEN ReadExit(F, S, -1, v.buf, ZeroKey, fault)
        ELSE ReadExit(F, S, nBytes, v.buf, ZeroKey, fault)

\* Mutant of ReadSecureDecrypt: the return value of the decryption is not
\* looked at and the bytes it produced are handed on.
ReadSecureUnchecked(buf, data, iv, key, storedTag) ==
    LET pt == sdoCryptoAESGcmDecrypt(data, iv, key, GcmTag(data, iv, key)).pt
    IN  [ok |-> TRUE,
         buf |-> [i \in 1..Len(buf) |-> IF i <= Len(pt) THEN pt[i] ELSE buf[i]]]

\* The caller's buffer after sdoCryptoAESGcmDecrypt(buf, nBytes, data, ...).
ReadSecureDecrypt(buf, data, iv, key, storedTag) ==
    LET d == sdoCryptoAESGcmDecrypt(data, iv, key, storedTag)
    IN  IF ~d.ok THEN [ok |-> FALSE, buf |-> buf]
        ELSE [ok |-> TRUE,
              buf |-> [i \in 1..Len(buf) |-> IF i <= Len(d.pt) THEN d.pt[i] ELSE buf[i]]]

\* Mutant of ReadSecure: the IV is asked of the platform, as the write path
\* does, and not taken from the frame.
ReadSecureTakesIv(F, S, name, buf, nBytes, fault) ==
    LET encryptedDataLen == SecureHdr + nBytes
        rd            == read_buffer_from_file(F, name, sdoAlloc(encryptedDataLen), encryptedDataLen)
        encryptedData == rd.buf
        datLen_offst  == PLATFORM_GCM_TAG_SIZE + PLATFORM_IV_DEFAULT_LEN
        dataLength    == LoadLen(encryptedData, datLen_offst)
        pi            == getPlatformIV(S, 0, nBytes)
        iv            == IvBytes(pi.iv)
        storedTag     == SubSeq(encryptedData, PLATFORM_IV_DEFAULT_LEN + 1,
                                PLATFORM_IV_DEFAULT_LEN + PLATFORM_GCM_TAG_SIZE)
        data          == SubSeq(encryptedData, SecureHdr + 1, SecureHdr + LenValue(dataLength))
        k             == getPlatformAESKey(fault)
        d             == ReadSecureDecrypt(buf, data, iv, k.key, storedTag)
    IN  IF fault = "alloc" \/ ~rd.ok THEN ReadExit(F, S, -1, buf, ZeroKey, fault)
        ELSE IF LenExceeds(dataLength, nBytes) THEN ReadExit(F, S, -1, buf, ZeroKey, fault)
        ELSE IF ~pi.ok THEN ReadExit(F, S, -1, buf, ZeroKey, fault)
        ELSE IF ~k.ok THEN ReadExit(F, pi.slot, -1, buf, k.key, fault)
        ELSE IF ~d.ok THEN ReadExit(F, pi.slot, -1, d.buf, k.key, fault)
        ELSE ReadExit(F, pi.slot, nBytes, d.buf, k.key, fault)

ReadSecure(F, S, name, buf, nBytes, fault) ==
    LET encryptedDataLen == SecureHdr + nBytes
        rd            == read_buffer_from_file(F, name, sdoAlloc(encryptedDataLen), encryptedDataLen)
        encryptedData == rd.buf
        datLen_offst  == PLATFORM_GCM_TAG_SIZE + PLATFORM_IV_DEFAULT_LEN
        dataLength    == LoadLen(encryptedData, datLen_offst)
        iv            == Take(encryptedData, PLATFORM_IV_DEFAULT_LEN)
        storedTag     == SubSeq(encryptedData, PLATFORM_IV_DEFAULT_LEN + 1,
                                PLATFORM_IV_DEFAULT_LEN + PLATFORM_GCM_TAG_SIZE)
        data          == SubSeq(encryptedData, SecureHdr + 1, SecureHdr + LenValue(dataLength))
        k             == getPlatformAESKey(fault)
        d             == ReadSecureDecrypt(buf, data, iv, k.key, storedTag)
    IN  IF fault = "alloc" \/ ~rd.ok THEN ReadExit(F, S, -1, buf, ZeroKey, fault)
        ELSE IF LenExceeds(dataLength, nBytes) THEN ReadExit(F, S, -1, buf, ZeroKey, fault)
        ELSE IF ~k.ok THEN ReadExit(F, S, -1, buf, k.key, fault)
        ELSE IF ~d.ok THEN ReadExit(F, S, -1, d.buf, k.key, fault)
        ELSE ReadExit(F, S, nBytes, d.buf, k.key, fault)

ReadRaw(F, S, name, buf, nBytes, fault) ==
    LET rd == read_buffer_from_file(F, name, buf, nBytes)
    IN  IF ~rd.ok THEN ReadExit(F, S, -1, buf, ZeroKey, fault)
        ELSE ReadExit(F, S, nBytes, rd.buf, ZeroKey, fault)

\* Mutant of sdoBlobRead: an unknown flag is read as a raw file.
sdoBlobReadDefaultRaw(F, S, name, flags, buf, nBytes, fault) ==
    IF fault = "null" \/ nBytes = 0 THEN ReadExit(F, S, -1, buf, ZeroKey, fault)
    ELSE IF nBytes > R_MAX_SIZE THEN ReadExit(F, S, -1, buf, ZeroKey, fault)
    ELSE CASE flags = SDO_SDK_NORMAL_DATA -> ReadNormal(F, S, name, buf, nBytes, fault)
           [] flags = SDO_SDK_SECURE_DATA -> ReadSecure(F, S, name, buf, nBytes, fault)
           [] OTHER -> ReadRaw(F, S, name, buf, nBytes, fault)

\* buf is the caller's buffer of nBytes bytes as it is on entry.
sdoBlobRead(F, S, name, flags, buf, nBytes, fault) ==
    IF fault = "null" \/ nBytes = 0 THEN ReadExit(F, S, -1, buf, ZeroKey, fault)
    ELSE IF nBytes > R_MAX_SIZE THEN ReadExit(F, S, -1, buf, ZeroKey, fault)
    ELSE CASE flags = SDO_SDK_RAW_DATA    -> ReadRaw(F, S, name, buf, nBytes, fault)
           [] flags = SDO_SDK_NORMAL_DATA -> ReadNormal(F, S, name, buf, nBytes, fault)
           [] flags = SDO_SDK_SECURE_DATA -> ReadSecure(F, S, name, buf, nBytes, fault)
           [] OTHER -> ReadExit(F, S, -1, buf, ZeroKey, fault)


(* ----------------------------- sdoBlobWrite --------------------------- *)
\* The stream f of sdoBlobWrite: NULL, or open on the file `name` with the
\* bytes fwrite has accepted and the file has not got yet.
NoStream == [open |-> FALSE, name |-> 0, pending |-> <<>>]

\* fclose(f) hands the bytes the stream still holds to the file; when that
\* fails (fault "close") the file gets the first k of them only.
fclose(F, f, fault, k) ==
    IF ~f.open THEN F
    ELSE LET n == IF fault = "close" /\ k < Len(f.pending) THEN k ELSE Len(f.pending)
         IN  [F EXCEPT ![f.name] = FileOf(F[f.name].bytes \o Take(f.pending, n))]

\* Mutant of WriteExit: the key copy is left as it is.
WriteExitNoWipe(F, S, retval, ivn, key, fault, k, f) ==
    [retval |-> retval, files |-> fclose(F, f, fault, k), slot |-> S, iv |-> ivn,
     aes_key |-> key]

\* exit: the stream is closed when there is one, and a failure of fclose is
\* logged only; then the key copy is cleared, and a failure of that turns
\* the result into -1.  ivn is the nonce getPlatformIV handed to this call,
\* -1 when none.
WriteExit(F, S, retval, ivn, key, fault, k, f) ==
    IF fault = "wipe"
    THEN [retval |-> -1, files |-> fclose(F, f, fault, k), slot |-> S, iv |-> ivn,
          aes_key |-> key]
    ELSE [retval |-> retval, files |-> fclose(F, f, fault, k), slot |-> S, iv |-> ivn,
          aes_key |-> ZeroKey]

\* writeContext of a raw blob: the payload.
RawContext(buf, nBytes) == Take(buf, nBytes)

\* writeContext of a normal blob: HMAC(32) || size(4) || payload.
NormalContext(buf, nBytes) ==
    sdoComputeStorageHMAC(Take(buf, nBytes)) \o StoreLen(nBytes) \o Take(buf, nBytes)

\* Mutant of SecureContext: the IV used is not copied into the context,
\* whose first 12 bytes stay as sdoAlloc left them.
SecureContextNoIv(iv, tag, nBytes, ct) ==
    sdoAlloc(PLATFORM_IV_DEFAULT_LEN) \o tag \o StoreLen(nBytes) \o ct

\* writeContext of a secure blob: IV(12) || TAG(16) || size(4) || ciphertext.
SecureContext(iv, tag, nBytes, ct) ==
    iv \o tag \o StoreLen(nBytes) \o ct

writeContextLen(flags, nBytes) ==
    CASE flags = SDO_SDK_RAW_DATA    -> nBytes
      [] flags = SDO_SDK_NORMAL_DATA -> NormalHdr + nBytes
      [] flags = SDO_SDK_SECURE_DATA -> SecureHdr + nBytes
      [] OTHER -> 0

\* Mutant of FileStore: the old file is removed before the new one is opened.
FileStoreUnlinkFirst(F, name, ctx, fault, k) ==
    IF fault = "open"
    THEN [ok |-> FALSE, files |-> [F EXCEPT ![name] = NoFile], f |-> NoStream]
    ELSE IF fault = "short" /\ k < Len(ctx)
    THEN [ok |-> FALSE, files |-> [F EXCEPT ![name] = FileOf(Take(ctx, k))],
          f |-> [open |-> TRUE, name |-> name, pending |-> <<>>]]
    ELSE [ok |-> TRUE, files |-> [F EXCEPT ![name] = FileOf(<<>>)],
          f |-> [open |-> TRUE, name |-> name, pending |-> ctx]]

\* fopen(name, "w") then fwrite of the whole context: an open that fails
\* leaves the file and f NULL, an open that succeeds empties the file.  A
\* short fwrite has put the first k bytes of the context into the file; a
\* full one has put the context into the stream, from where the bytes reach
\* the file when the stream is closed.
FileStore(F, name, ctx, fault, k) ==
    IF fault = "open" THEN [ok |-> FALSE, files |-> F, f |-> NoStream]
    ELSE IF fault = "short" /\ k < Len(ctx)
    THEN [ok |-> FALSE, files |-> [F EXCEPT ![name] = FileOf(Take(ctx, k))],
          f |-> [open |-> TRUE, name |-> name, pending |-> <<>>]]
    ELSE [ok |-> TRUE, files |-> [F EXCEPT ![name] = FileOf(<<>>)],
          f |-> [open |-> TRUE, name |-> name, pending |-> ctx]]

\* fopen, fwrite, retval = nBytes when all of the context was accepted, exit.
WriteStore(F, S, name, ctx, nBytes, ivn, key, fault, k) ==
    LET st == FileStore(F, name, ctx, fault, k)
    IN  WriteExit(st.files, S, IF st.ok THEN nBytes ELSE -1, ivn, key, fault, k, st.f)

\* Mutant of WriteSecure: a failure after getPlatformIV puts the slot back.
WriteSecureRestoreSlot(F, S, name, buf, nBytes, fault, k, rnd) ==
    LET pi  == getPlatformIV(S, rnd, nBytes)
        iv  == IvBytes(pi.iv)
        ak  == getPlatformAESKey(fault)
        enc == sdoCryptoAESGcmEncrypt(Take(buf, nBytes), iv, ak.key)
    IN  IF fault = "alloc" THEN WriteExit(F, S, -1, -1, ZeroKey, fault, k, NoStream)
        ELSE IF ~pi.ok THEN WriteExit(F, S, -1, -1, ZeroKey, fault, k, NoStream)
        ELSE IF ~ak.ok THEN WriteExit(F, S, -1, pi.iv, ak.key, fault, k, NoStream)
        ELSE IF fault = "enc" THEN WriteExit(F, S, -1, pi.iv, ak.key, fault, k, NoStream)
        ELSE WriteStore(F, pi.slot, name, SecureContext(iv, enc.tag, nBytes, enc.ct),
                        nBytes, pi.iv, ak.key, fault, k)

\* Mutant of WriteSecure: the return value of getPlatformIV is not looked at.
WriteSecureIgnoreIvFailure(F, S, name, buf, nBytes, fault, k, rnd) ==
    LET pi  == getPlatformIV(S, rnd, nBytes)
        iv  == IF pi.ok THEN IvBytes(pi.iv) ELSE sdoAlloc(PLATFORM_IV_DEFAULT_LEN)
        ak  == getPlatformAESKey(fault)
        enc == sdoCryptoAESGcmEncrypt(Take(buf, nBytes), iv, ak.key)
    IN  IF fault = "alloc" THEN WriteExit(F, S, -1, -1, ZeroKey, fault, k, NoStream)
        ELSE IF ~ak.ok THEN WriteExit(F, pi.slot, -1, pi.iv, ak.key, fault, k, NoStream)
        ELSE IF fault = "enc" THEN WriteExit(F, pi.slot, -1, pi.iv, ak.key, fault, k, NoStream)
        ELSE WriteStore(F, pi.slot, name, SecureContext(iv, enc.tag, nBytes, enc.ct),
                        nBytes, pi.iv, ak.key, fault, k)

WriteSecure(F, S, name, buf, nBytes, fault, k, rnd) ==
    LET pi  == getPlatformIV(S, rnd, nBytes)
        iv  == IvBytes(pi.iv)
        ak  == getPlatformAESKey(fault)
        enc == sdoCryptoAESGcmEncrypt(Take(buf, nBytes), iv, ak.key)
    IN  IF fault = "alloc" THEN WriteExit(F, S, -1, -1, ZeroKey, fault, k, NoStream)
        ELSE IF ~pi.ok THEN WriteExit(F, S, -1, -1, ZeroKey, fault, k, NoStream)
        ELSE IF ~ak.ok THEN WriteExit(F, pi.slot, -1, pi.iv, ak.key, fault, k, NoStream)
        ELSE IF fault = "enc" THEN WriteExit(F, pi.slot, -1, pi.iv, ak.key, fault, k, NoStream)
        ELSE WriteStore(F, pi.slot, name, SecureContext(iv, enc.tag, nBytes, enc.ct),
                        nBytes, pi.iv, ak.key, fault, k)

WriteNormal(F, S, name, buf, nBytes, fault, k) ==
    IF fault = "alloc" \/ fault = "hmac" THEN WriteExit(F, S, -1, -1, ZeroKey, fault, k, NoStream)
    ELSE WriteStore(F, S, name, NormalContext(buf, nBytes), nBytes, -1, ZeroKey, fault, k)

WriteRaw(F, S, name, buf, nBytes, fault, k) ==
    IF fault = "alloc" THEN WriteExit(F, S, -1, -1, ZeroKey, fault, k, NoStream)
    ELSE WriteStore(F, S, name, RawContext(buf, nBytes), nBytes, -1, ZeroKey, fault, k)

\* Mutant of sdoBlobWrite: nBytes is not checked.
sdoBlobWriteAnyLength(F, S, name, flags, buf, nBytes, fault, k, rnd) ==
    IF fault = "null" THEN WriteExit(F, S, -1, -1, ZeroKey, fault, k, NoStream)
    ELSE CASE flags = SDO_SDK_RAW_DATA    -> WriteRaw(F, S, name, buf, nBytes, fault, k)
           [] flags = SDO_SDK_NORMAL_DATA -> WriteNormal(F, S, name, buf, nBytes, fault, k)
           [] flags = SDO_SDK_SECURE_DATA -> WriteSecure(F, S, name, buf, nBytes, fault, k, rnd)
           [] OTHER -> WriteExit(F, S, -1, -1, ZeroKey, fault, k, NoStream)

\* buf holds the nBytes bytes to store; fault names the step the platform
\* makes fail (none for "ok"), k the count a short fwrite reports or the
\* number of bytes a failing fclose gets to the file, rnd the value the
\* random generator would return.
sdoBlobWrite(F, S, name, flags, buf, nBytes, fault, k, rnd) ==
    IF fault = "null" \/ nBytes = 0 THEN WriteExit(F, S, -1, -1, ZeroKey, fault, k, NoStream)
    ELSE IF nBytes > R_MAX_SIZE THEN WriteExit(F, S, -1, -1, ZeroKey, fault, k, NoStream)
    ELSE CASE flags = SDO_SDK_RAW_DATA    -> WriteRaw(F, S, name, buf, nBytes, fault, k)
           [] flags = SDO_SDK_NORMAL_DATA -> WriteNormal(F, S, name, buf, nBytes, fault, k)
           [] flags = SDO_SDK_SECURE_DATA -> WriteSecure(F, S, name, buf, nBytes, fault, k, rnd)
           [] OTHER -> WriteExit(F, S, -1, -1, ZeroKey, fault, k, NoStream)


(* ------------------- protocol state machine (sdoprot.c) --------------- *)
\* The protocol states.  A state with a state function carries the number of
\* the message that function handles (msg10 .. msg51).
SDO_STATE_DI_INIT == 1
SDO_STATE_TO1_INIT == 2
SDO_STATE_T02_INIT == 3
SDO_STATE_DI_APP_START == 10
SDO_STATE_DI_DONE == 13
SDO_STATE_T01_SND_HELLO_SDO == 30
SDO_STATE_TO1_RCV_SDO_REDIRECT == 33
SDO_STATE_T02_SND_HELLO_DEVICE == 40
SDO_STATE_TO2_RCV_DONE_2 == 51
SDO_STATE_ERROR == 98
SDO_STATE_DONE == 99

DIStates  == SDO_STATE_DI_APP_START..SDO_STATE_DI_DONE
TO1States == SDO_STATE_T01_SND_HELLO_SDO..SDO_STATE_TO1_RCV_SDO_REDIRECT
TO2States == SDO_STATE_T02_SND_HELLO_DEVICE..SDO_STATE_TO2_RCV_DONE_2
HandlerStates == DIStates \cup TO1States \cup TO2States
\* 0 is the state of a protocol structure nothing has initialized yet.
NoHandlerStates ==
    {0, SDO_STATE_DI_INIT, SDO_STATE_TO1_INIT, SDO_STATE_T02_INIT,
     SDO_STATE_ERROR, SDO_STATE_DONE}
ProtStates == HandlerStates \cup NoHandlerStates

\* The state function tables; NoFn is the NULL function pointer.
NoFn == "NULL"
di_state_fn  == <<"msg10", "msg11", "msg12", "msg13">>
to1_state_fn == <<"msg30", "msg31", "msg32", "msg33">>
to2_state_fn == <<"msg40", "msg41", "msg42", "msg43", "msg44", "msg45",
                  "msg46", "msg47", "msg48", "msg49", "msg50", "msg51">>
DI_ID_TO_STATE_FN(id)  == id - SDO_STATE_DI_APP_START
TO1_ID_TO_STATE_FN(id) == id - SDO_STATE_T01_SND_HELLO_SDO
TO2_ID_TO_STATE_FN(id) == id - SDO_STATE_T02_SND_HELLO_DEVICE

\* Pointer fields of SDOProt_t: those ps_free releases, and those
\* sdoProtTO2Init allocates.  A field is NULL, points to a block that is
\* allocated ("live"), or points to a block that was freed ("freed").
FreeFields == {"SDORedirect.plainText", "SDORedirect.Obsig", "n5", "n5r",
               "newOVHdrHMAC", "n6", "n7r"}
InitFields == {"iv", "dsiInfo"}
PtrFields == FreeFields \cup InitFields

\* Limit on the TO2 round trips (its value is scaled down).
MAX_TO2_ROUND_TRIPS == 2

\* SDOProt_t as it is before any init function ran: all zero.
NoProt == [state |-> 0, success |-> FALSE, RoundTripCount |-> 0,
           ptr |-> [f \in PtrFields |-> "NULL"]]

\* The activation record of sdo_process_states: where the call is (idle: no
\* call; loop: at the head of the for loop; ret: returned), its locals, and
\* what happened in the call so far: the last invocation of a state function
\* (the function, ps->state at the moment of the call, its return value),
\* whether ps_free ran in the last iteration and the fields it released,
\* and whether the transition from SDO_STATE_TO2_RCV_DONE_2 to
\* SDO_STATE_DONE was seen.
NoInv == [fn |-> NoFn, at |-> 0, ret |-> 0]
NoFrame == [pc |-> "idle", prevState |-> 0, state_fn |-> NoFn, status |-> FALSE,
            called |-> NoInv, freedNow |-> FALSE, released |-> {},
            completed |-> FALSE]

\* The result of the last call of an init function or of
\* sdoCheckTO2RoundTrips: the blocks it allocated and those it freed.
NoRes == [op |-> "none", ret |-> 0, allocated |-> {}, freed |-> {}]

\* ps_free: every field that is not NULL is freed and set to NULL.
\* released are the fields that were freed; doubleFree tells that a block
\* was freed that was not allocated any more.
ps_free(P) ==
    [ps |-> [P EXCEPT !.ptr = [f \in PtrFields |->
                IF f \in FreeFields THEN "NULL" ELSE @[f]]],
     released |-> {f \in FreeFields : P.ptr[f] # "NULL"},
     doubleFree |-> \E f \in FreeFields : P.ptr[f] = "freed"]

\* sdoSendErrorMessage: one error block with ec, emsg and em is written.
sdoSendErrorMessage(W, ecode, msgnum, errmsg) ==
    Append(W, [ec |-> ecode, emsg |-> msgnum, em |-> errmsg])

\* The switch of sdo_process_states: the state function for the state, the
\* one already in state_fn when the state has none.
StateFn(state, state_fn) ==
    IF state \in DIStates THEN di_state_fn[DI_ID_TO_STATE_FN(state) + 1]
    ELSE IF state \in TO1States THEN to1_state_fn[TO1_ID_TO_STATE_FN(state) + 1]
    ELSE IF state \in TO2States THEN to2_state_fn[TO2_ID_TO_STATE_FN(state) + 1]
    ELSE state_fn

\* The state a state function is registered for.
RegisteredFor(fn) == CHOOSE s \in HandlerStates : StateFn(s, NoFn) = fn

\* A state function is known by what one invocation of it does: o.ret is
\* its return value (0: success), o.next the value it leaves in ps->state,
\* o.alloc the field in which it stores message data for later messages
\* ("none": nothing stored).
StateFnCall(P, o) ==
    [P EXCEPT !.state = o.next,
              !.ptr = IF o.alloc = "none" THEN @ ELSE [@ EXCEPT ![o.alloc] = "live"]]

\* Mutant of ProcessIter: status is true whenever the state function
\* returned success.
ProcessIterTrueOnSuccess(P, F, W, o) ==
    LET prevState == P.state
        state_fn  == StateFn(P.state, F.state_fn)
        P1        == StateFnCall(P, o)
        F1        == [F EXCEPT !.prevState = prevState, !.state_fn = state_fn,
                               !.called = [fn |-> state_fn, at |-> prevState, ret |-> o.ret]]
    IN  IF state_fn = NoFn
        THEN [ps |-> P, sdow |-> W, doubleFree |-> FALSE,
              fr |-> [F EXCEPT !.pc = "ret", !.prevState = prevState,
                               !.freedNow = FALSE, !.released = {}]]
        ELSE IF o.ret # 0
        THEN LET P2 == [P1 EXCEPT !.state = SDO_STATE_ERROR]
                 fp == ps_free(P2)
             IN  [ps |-> fp.ps, doubleFree |-> fp.doubleFree,
                  sdow |-> sdoSendErrorMessage(W, "MESSAGE_BODY_ERROR", P2.state,
                               [msg |-> P1.state, text |-> "message parse error"]),
                  fr |-> [F1 EXCEPT !.pc = "ret", !.freedNow = TRUE,
                                    !.released = fp.released]]
        ELSE LET done == prevState = SDO_STATE_TO2_RCV_DONE_2 /\ P1.state = SDO_STATE_DONE
                 fp   == IF done THEN ps_free(P1)
                         ELSE [ps |-> P1, released |-> {}, doubleFree |-> FALSE]
                 F2   == [F1 EXCEPT !.freedNow = done, !.released = fp.released,
                                    !.completed = @ \/ done]
             IN  [ps |-> fp.ps, doubleFree |-> fp.doubleFree, sdow |-> W,
                  fr |-> [F2 EXCEPT !.pc = "ret", !.status = TRUE]]

\* One iteration of the for loop of sdo_process_states, on protocol state P,
\* activation record F and outgoing blocks W, when the state function that is
\* invoked behaves as o says.
ProcessIter(P, F, W, o) ==
    LET prevState == P.state
        state_fn  == StateFn(P.state, F.state_fn)
        P1        == StateFnCall(P, o)
        F1        == [F EXCEPT !.prevState = prevState, !.state_fn = state_fn,
                               !.called = [fn |-> state_fn, at |-> prevState, ret |-> o.ret]]
    IN  IF state_fn = NoFn
        THEN [ps |-> P, sdow |-> W, doubleFree |-> FALSE,
              fr |-> [F EXCEPT !.pc = "ret", !.prevState = prevState,
                               !.freedNow = FALSE, !.released = {}]]
        ELSE IF o.ret # 0
        THEN LET P2 == [P1 EXCEPT !.state = SDO_STATE_ERROR]
                 fp == ps_free(P2)
             IN  [ps |-> fp.ps, doubleFree |-> fp.doubleFree,
                  sdow |-> sdoSendErrorMessage(W, "MESSAGE_BODY_ERROR", P2.state,
                               [msg |-> P1.state, text |-> "message parse error"]),
                  fr |-> [F1 EXCEPT !.pc = "ret", !.freedNow = TRUE,
                                    !.released = fp.released]]
        ELSE LET done == prevState = SDO_STATE_TO2_RCV_DONE_2 /\ P1.state = SDO_STATE_DONE
                 fp   == IF done THEN ps_free(P1)
                         ELSE [ps |-> P1, released |-> {}, doubleFree |-> FALSE]
                 F2   == [F1 EXCEPT !.freedNow = done, !.released = fp.released,
                                    !.completed = @ \/ done]
             IN  [ps |-> fp.ps, doubleFree |-> fp.doubleFree, sdow |-> W,
                  fr |-> IF prevState = fp.ps.state
                         THEN [F2 EXCEPT !.pc = "ret", !.status = TRUE]
                         ELSE F2]

\* sdoProtDIInit.
sdoProtDIInit(P) ==
    [P EXCEPT !.state = SDO_STATE_DI_INIT, !.success = FALSE]

\* sdoProtTO1Init: -1 when ps, devCred or devCred->ownerBlk is NULL.
sdoProtTO1Init(P, fault) ==
    IF fault = "null" THEN [ret |-> -1, ps |-> P]
    ELSE [ret |-> 0, ps |-> [P EXCEPT !.state = SDO_STATE_TO1_INIT, !.success = FALSE]]

\* sdoProtTO2Init: moduleList tells whether a module list is passed; fault
\* names the step that fails: "iv" or "dsi" the allocation of that buffer,
\* "start" the START of the service info modules.  allocated and freed are
\* the buffers the call allocated and freed.
sdoProtTO2Init(P, moduleList, fault) ==
    LET P0 == [P EXCEPT !.state = SDO_STATE_T02_INIT, !.success = FALSE,
                        !.RoundTripCount = 0]
        P1 == [P0 EXCEPT !.ptr["iv"] = "live"]
        P2 == [P1 EXCEPT !.ptr["dsiInfo"] = "live"]
    IN  IF fault = "iv"
        THEN [ret |-> FALSE, ps |-> [P0 EXCEPT !.ptr["iv"] = "NULL"],
              allocated |-> {}, freed |-> {}]
        ELSE IF ~moduleList
        THEN [ret |-> TRUE, ps |-> P1, allocated |-> {"iv"}, freed |-> {}]
        ELSE IF fault = "dsi"
        THEN [ret |-> FALSE, ps |-> [P1 EXCEPT !.ptr["dsiInfo"] = "NULL"],
              allocated |-> {"iv"}, freed |-> {}]
        ELSE IF fault = "start"
        THEN [ret |-> FALSE,
              ps |-> [P2 EXCEPT !.ptr["iv"] = "freed", !.ptr["dsiInfo"] = "freed"],
              allocated |-> {"iv", "dsiInfo"}, freed |-> {"iv", "dsiInfo"}]
        ELSE [ret |-> TRUE, ps |-> P2, allocated |-> {"iv", "dsiInfo"}, freed |-> {}]

\* sdoCheckTO2RoundTrips.
sdoCheckTO2RoundTrips(P, W) ==
    IF P.RoundTripCount > MAX_TO2_ROUND_TRIPS
    THEN [ret |-> FALSE, ps |-> [P EXCEPT !.state = SDO_STATE_ERROR],
          sdow |-> sdoSendErrorMessage(W, "INTERNAL_SERVER_ERROR", P.state,
                                       "Exceeded max number of rounds")]
    ELSE [ret |-> TRUE, ps |-> [P EXCEPT !.RoundTripCount = @ + 1], sdow |-> W]


(* ------------------------------- state -------------------------------- *)
Payloads == SeqsUpTo(1..MaxByte, R_MAX_SIZE)
\* What a caller may pass to write: also the empty and an oversized buffer.
WriteBufs == Payloads \cup {<<>>, Fill(R_MAX_SIZE + 1, 0)}
\* A caller's read buffer is nBytes long and holds whatever the caller left
\* in it: here a byte that is neither zero nor a payload byte.
BufFills == {238}

NoCall == [op |-> "none", name |-> 0, flags |-> "", n |-> 0, fault |-> "ok",
           ret |-> 0, buf |-> <<>>, iv |-> -1, aes_key |-> ZeroKey, rmax |-> ""]
NoBlob == [kind |-> "NONE", payload |-> <<>>, flip |-> 0]
\* The locals of a sealed sdoBlobWrite: the payload, the slot as getPlatformIV
\* read it, the nonce it was given and the writeContext; ret is what the
\* thread's last call returned (0: no call has returned).
NoLocals == [buf |-> <<>>, sl |-> EmptySlot, iv |-> -1, ctx |-> <<>>, ret |-> 0]
\* The locals are gone when the call returns retval.
Returned(retval) == [NoLocals EXCEPT !.ret = retval]

SizeFaults == {"ok", "null"}
WriteFaults(flags) ==
    {"ok", "null", "alloc", "open", "short", "close", "wipe"}
        \cup (IF flags = SDO_SDK_NORMAL_DATA THEN {"hmac"} ELSE {})
        \cup (IF flags = SDO_SDK_SECURE_DATA THEN {"key", "enc"} ELSE {})
ReadFaults(flags) ==
    {"ok", "null", "wipe"}
        \cup (IF flags = SDO_SDK_NORMAL_DATA THEN {"alloc", "hmac"} ELSE {})
        \cup (IF flags = SDO_SDK_SECURE_DATA THEN {"alloc", "key"} ELSE {})
\* The counts a short fwrite of len bytes may report, and the numbers of
\* bytes a failing fclose may get to the file.
ShortCounts(len) == {k \in {0, 1, len - 1} : 0 <= k /\ k < len}

Init ==
    /\ files = [n \in AllNames |-> NoFile]
    /\ slot = EmptySlot
    /\ emitted = <<>>
    /\ stored = [n \in AllNames |-> NoBlob]
    /\ last = NoCall
    /\ pc = [t \in Threads |-> "idle"]
    /\ loc = [t \in Threads |-> NoLocals]
    /\ lock = 0
    /\ ps = NoProt
    /\ sdow = <<>>
    /\ fr = NoFrame
    /\ res = NoRes
    /\ doubleFree = FALSE

(* ---------------------- the API, one call at a time ------------------- *)
\* A caller issues a call, gets the result (last) and goes on from there:
\* the next step is taken once the result has been taken (Restart).
Size(name, flags, fault, rmax) ==
    LET r == sdoBlobSize(files, slot, name, flags, fault, rmax)
    IN  /\ last = NoCall
        /\ files' = r.files
        /\ slot' = r.slot
        /\ last' = [NoCall EXCEPT !.op = "size", !.name = name, !.flags = flags,
                                  !.fault = fault, !.rmax = rmax, !.ret = r.retval]
        /\ UNCHANGED <<ps, sdow, fr, res, doubleFree, emitted, stored, pc, loc, lock>>

Read(name, flags, nBytes, fill, fault) ==
    LET r == sdoBlobRead(files, slot, name, flags, Fill(nBytes, fill), nBytes, fault)
    IN  /\ last = NoCall
        /\ files' = r.files
        /\ slot' = r.slot
        /\ last' = [NoCall EXCEPT !.op = "read", !.name = name, !.flags = flags,
                                  !.n = nBytes, !.fault = fault, !.ret = r.retval,
                                  !.buf = r.buf, !.aes_key = r.aes_key]
        /\ UNCHANGED <<ps, sdow, fr, res, doubleFree, emitted, stored, pc, loc, lock>>

\* What the history records of the blob after a write returned r: the
\* payload when the write returned its length.
StoredAfter(name, flags, buf, r) ==
    IF r.retval >= 0 THEN [kind |-> flags, payload |-> buf, flip |-> 0]
    ELSE IF r.files[name] = files[name] THEN stored[name]
    ELSE [kind |-> "PARTIAL", payload |-> <<>>, flip |-> 0]

Write(name, flags, buf, fault, k, rnd) ==
    LET r == sdoBlobWrite(files, slot, name, flags, buf, Len(buf), fault, k, rnd)
    IN  /\ last = NoCall
        /\ files' = r.files
        /\ slot' = r.slot
        /\ emitted' = IF r.iv # -1 THEN Append(emitted, r.iv) ELSE emitted
        /\ stored' = [stored EXCEPT ![name] = StoredAfter(name, flags, buf, r)]
        /\ last' = [NoCall EXCEPT !.op = "write", !.name = name, !.flags = flags,
                                  !.n = Len(buf), !.fault = fault, !.ret = r.retval,
                                  !.iv = r.iv, !.aes_key = r.aes_key]
        /\ UNCHANGED <<ps, sdow, fr, res, doubleFree, pc, loc, lock>>

\* The frame of the blob the last write of name reported is in the file in
\* full.
FrameOnDisk(name) ==
    /\ stored[name].kind \in Modes
    /\ Len(files[name].bytes)
          = writeContextLen(stored[name].kind, Len(stored[name].payload))

\* Somebody with access to the file system changes one byte of a blob the
\* store has written.
Tamper(name, off, d) ==
    /\ last = NoCall
    /\ FrameOnDisk(name)
    /\ stored[name].flip = 0
    /\ off \in 1..Len(files[name].bytes)
    /\ files' = [files EXCEPT ![name].bytes[off] = (@ + d) % 256]
    /\ stored' = [stored EXCEPT ![name].flip = off]
    /\ last' = [NoCall EXCEPT !.op = "tamper", !.name = name]
    /\ UNCHANGED <<ps, sdow, fr, res, doubleFree, slot, emitted, pc, loc, lock>>

\* The values somebody may put into the length field of a frame.
LenValues == 0..(R_MAX_SIZE + 1)
\* Offset of the length field in the frame of a blob of the given kind.
LenOffset(kind) ==
    IF kind = SDO_SDK_NORMAL_DATA THEN PLATFORM_HMAC_SIZE
    ELSE PLATFORM_IV_DEFAULT_LEN + PLATFORM_GCM_TAG_SIZE

\* Somebody with access to the file system sets the length field of an
\* authenticated or sealed blob to a length other than that of its payload.
TamperLen(name, len) ==
    LET off == LenOffset(stored[name].kind)
    IN  /\ last = NoCall
        /\ stored[name].kind \in {SDO_SDK_NORMAL_DATA, SDO_SDK_SECURE_DATA}
        /\ FrameOnDisk(name)
        /\ stored[name].flip = 0
        /\ len # Len(stored[name].payload)
        /\ files' = [files EXCEPT ![name].bytes =
                        [i \in 1..Len(@) |->
                            IF i \in (off + 1)..(off + BLOB_CONTENT_SIZE)
                            THEN StoreLen(len)[i - off] ELSE @[i]]]
        /\ stored' = [stored EXCEPT ![name].flip = off + BLOB_CONTENT_SIZE]
        /\ last' = [NoCall EXCEPT !.op = "tamper", !.name = name, !.n = len]
        /\ UNCHANGED <<ps, sdow, fr, res, doubleFree, slot, emitted, pc, loc, lock>>

\* The caller has its result; the process may end and a new one start.
\* Only the disk is carried over to the next call.
Restart ==
    /\ last # NoCall
    /\ last' = NoCall
    /\ UNCHANGED <<ps, sdow, fr, res, doubleFree, files, slot, emitted, stored, pc, loc, lock>>

\* The longest frame on disk: that of a normal blob of R_MAX_SIZE bytes.
MaxFrame == NormalHdr + R_MAX_SIZE

\* The count matters to a short fwrite and to a failing fclose only, the
\* random value to the first sealed write only.
ShortChoice(flags, buf, fault) ==
    IF fault \in {"short", "close"} THEN ShortCounts(writeContextLen(flags, Len(buf)))
    ELSE {0}
RandomChoice(flags) ==
    IF flags = SDO_SDK_SECURE_DATA /\ ~slot.init THEN Nonces ELSE {0}

Next ==
    \/ \E name \in Names, flags \in Flags, fault \in SizeFaults, rmax \in R_MAX_SIZE_Types :
          Size(name, flags, fault, rmax)
    \/ \E name \in Names, flags \in Flags, nBytes \in 0..(R_MAX_SIZE + 1), fill \in BufFills :
          \E fault \in ReadFaults(flags) : Read(name, flags, nBytes, fill, fault)
    \/ \E name \in Names, flags \in Flags, buf \in WriteBufs :
          \E fault \in WriteFaults(flags) :
            \E k \in ShortChoice(flags, buf, fault), rnd \in RandomChoice(flags) :
                Write(name, flags, buf, fault, k, rnd)
    \/ \E name \in Names, off \in 1..MaxFrame, d \in 1..MaxFlip : Tamper(name, off, d)
    \/ \E name \in Names, len \in LenValues : TamperLen(name, len)
    \/ Restart

Spec == Init /\ [][Next]_vars


(* --------------- sealed writes of several threads, by steps ----------- *)
\* Thread t stores payloads under its own name ThreadName(t).  The steps of
\* getPlatformIV (take the slot's lock, read the slot, persist the advanced
\* counter, hand the nonce out and release) are those the specification
\* prescribes; the steps around it are those of sdoBlobWrite.
ThreadPayloads == {Fill(1, 1)}

\* The steps of a sealed write the platform may make fail.
BeginFaults == {"ok", "alloc"}
EncryptFaults == {"ok", "key", "enc"}
OpenFaults == {"ok", "open"}
FwriteFaults == {"ok", "short", "close", "wipe"}

\* Arguments checked and writeContext allocated: next is getPlatformIV.  A
\* failing sdoAlloc goes to exit.
WBegin(t, buf, fault) ==
    LET r == WriteExit(files, slot, -1, -1, ZeroKey, fault, 0, NoStream)
    IN  /\ pc[t] = "idle"
        /\ Len(buf) \in 1..R_MAX_SIZE
        /\ IF fault = "alloc"
           THEN /\ pc' = pc
                /\ loc' = [loc EXCEPT ![t] = Returned(r.retval)]
           ELSE /\ pc' = [pc EXCEPT ![t] = "lock"]
                /\ loc' = [loc EXCEPT ![t] = [NoLocals EXCEPT !.buf = buf]]
        /\ UNCHANGED <<ps, sdow, fr, res, doubleFree, files, slot, emitted, stored, last, lock>>

\* Mutant of IvLock: the slot is entered without waiting for the lock.
IvLockNoWait(t) ==
    /\ pc[t] = "lock"
    /\ lock' = t
    /\ pc' = [pc EXCEPT ![t] = "read"]
    /\ UNCHANGED <<ps, sdow, fr, res, doubleFree, files, slot, emitted, stored, last, loc>>

IvLock(t) ==
    /\ pc[t] = "lock"
    /\ lock = 0
    /\ lock' = t
    /\ pc' = [pc EXCEPT ![t] = "read"]
    /\ UNCHANGED <<ps, sdow, fr, res, doubleFree, files, slot, emitted, stored, last, loc>>

IvRead(t) ==
    /\ pc[t] = "read"
    /\ loc' = [loc EXCEPT ![t].sl = slot]
    /\ pc' = [pc EXCEPT ![t] = "persist"]
    /\ UNCHANGED <<ps, sdow, fr, res, doubleFree, files, slot, emitted, stored, last, lock>>

\* Mutant of IvPersist: the advanced counter is kept in memory only.
IvPersistDeferred(t, rnd) ==
    LET pi == getPlatformIV(loc[t].sl, rnd, Len(loc[t].buf))
    IN  /\ pc[t] = "persist"
        /\ pi.ok
        /\ loc' = [loc EXCEPT ![t].iv = pi.iv]
        /\ pc' = [pc EXCEPT ![t] = "emit"]
        /\ UNCHANGED <<ps, sdow, fr, res, doubleFree, files, slot, emitted, stored, last, lock>>

\* The advanced counter goes to the slot; on rollover nothing is written,
\* the lock is released and sdoBlobWrite fails.
IvPersist(t, rnd) ==
    LET pi == getPlatformIV(loc[t].sl, rnd, Len(loc[t].buf))
    IN  /\ pc[t] = "persist"
        /\ IF pi.ok
           THEN /\ slot' = pi.slot
                /\ loc' = [loc EXCEPT ![t].iv = pi.iv]
                /\ pc' = [pc EXCEPT ![t] = "emit"]
                /\ lock' = lock
           ELSE /\ slot' = slot
                /\ loc' = [loc EXCEPT ![t] = Returned(-1)]
                /\ pc' = [pc EXCEPT ![t] = "idle"]
                /\ lock' = IF lock = t THEN 0 ELSE lock
        /\ UNCHANGED <<ps, sdow, fr, res, doubleFree, files, emitted, stored, last>>

\* getPlatformIV returns the nonce to sdoBlobWrite.
IvEmit(t) ==
    /\ pc[t] = "emit"
    /\ emitted' = Append(emitted, loc[t].iv)
    /\ lock' = IF lock = t THEN 0 ELSE lock
    /\ pc' = [pc EXCEPT ![t] = "key"]
    /\ UNCHANGED <<ps, sdow, fr, res, doubleFree, files, slot, stored, last, loc>>

\* Key fetched, payload encrypted, writeContext filled.  When the key is
\* not delivered or the encryption fails the call goes to exit and returns
\* -1: its nonce is spent and no file is touched.
WEncrypt(t, fault) ==
    LET iv  == IvBytes(loc[t].iv)
        ak  == getPlatformAESKey(fault)
        enc == sdoCryptoAESGcmEncrypt(loc[t].buf, iv, ak.key)
        r   == WriteExit(files, slot, -1, loc[t].iv, ak.key, fault, 0, NoStream)
    IN  /\ pc[t] = "key"
        /\ IF ~ak.ok \/ fault = "enc"
           THEN /\ loc' = [loc EXCEPT ![t] = Returned(r.retval)]
                /\ pc' = [pc EXCEPT ![t] = "idle"]
           ELSE /\ loc' = [loc EXCEPT ![t].ctx =
                               SecureContext(iv, enc.tag, Len(loc[t].buf), enc.ct)]
                /\ pc' = [pc EXCEPT ![t] = "open"]
        /\ UNCHANGED <<ps, sdow, fr, res, doubleFree, files, slot, emitted, stored, last, lock>>

\* fopen(name, "w") empties the file; when it returns NULL the call goes to
\* exit and returns -1 with the file as it was.
WOpen(t, fault) ==
    LET st == FileStore(files, ThreadName(t), loc[t].ctx, fault, 0)
        r  == WriteExit(st.files, slot, -1, loc[t].iv, PlatformAESKey, fault, 0, NoStream)
    IN  /\ pc[t] = "open"
        /\ IF ~st.f.open
           THEN /\ files' = r.files
                /\ stored' = stored
                /\ loc' = [loc EXCEPT ![t] = Returned(r.retval)]
                /\ pc' = [pc EXCEPT ![t] = "idle"]
           ELSE /\ files' = st.files
                /\ stored' = [stored EXCEPT ![ThreadName(t)] =
                                 [NoBlob EXCEPT !.kind = "PARTIAL"]]
                /\ loc' = loc
                /\ pc' = [pc EXCEPT ![t] = "fwrite"]
        /\ UNCHANGED <<ps, sdow, fr, res, doubleFree, slot, emitted, last, lock>>

\* fwrite of the writeContext into the file opened, then exit with fclose
\* and the clearing of the key: a short fwrite leaves the first k bytes and
\* returns -1, a failing fclose leaves the first k bytes and returns nBytes,
\* a failing memset_s leaves the frame and returns -1.
WFwrite(t, fault, k) ==
    LET r == WriteStore(files, slot, ThreadName(t), loc[t].ctx, Len(loc[t].buf),
                        loc[t].iv, PlatformAESKey, fault, k)
    IN  /\ pc[t] = "fwrite"
        /\ files' = r.files
        /\ stored' = IF r.retval >= 0
                     THEN [stored EXCEPT ![ThreadName(t)] =
                              [kind |-> SDO_SDK_SECURE_DATA, payload |-> loc[t].buf,
                               flip |-> 0]]
                     ELSE stored
        /\ pc' = [pc EXCEPT ![t] = "idle"]
        /\ loc' = [loc EXCEPT ![t] = Returned(r.retval)]
        /\ UNCHANGED <<ps, sdow, fr, res, doubleFree, slot, emitted, last, lock>>

\* The device loses power: memory and the lock are gone, the disk stays; a
\* thread caught inside fwrite leaves the first k bytes of its frame.
Crash(k) ==
    /\ \E t \in Threads : pc[t] # "idle"
    /\ files' = [n \in AllNames |->
                    IF \E t \in Threads : n = ThreadName(t) /\ pc[t] = "fwrite"
                    THEN FileOf(Take(loc[n - NumNames].ctx, k))
                    ELSE files[n]]
    /\ pc' = [t \in Threads |-> "idle"]
    /\ loc' = [t \in Threads |-> NoLocals]
    /\ lock' = 0
    /\ UNCHANGED <<ps, sdow, fr, res, doubleFree, slot, emitted, stored, last>>

\* The random value matters to a thread that found the slot empty.
ThreadRandom(t) == IF loc[t].sl.init THEN {0} ELSE Nonces
\* Bytes of the frame on disk when the power goes during fwrite.
CrashCounts == {0, PLATFORM_IV_DEFAULT_LEN}
\* The counts a short fwrite of a thread may report and the numbers of bytes
\* a failing fclose may get to its file.
ThreadCounts(t, fault) ==
    IF fault \in {"short", "close"}
    THEN {k \in ShortCounts(Len(loc[t].ctx)) \cup CrashCounts : k < Len(loc[t].ctx)}
    ELSE {0}

NextConc ==
    \/ \E t \in Threads, buf \in ThreadPayloads, fault \in BeginFaults :
          WBegin(t, buf, fault)
    \/ \E t \in Threads : IvLock(t)
    \/ \E t \in Threads : IvRead(t)
    \/ \E t \in Threads : \E rnd \in ThreadRandom(t) : IvPersist(t, rnd)
    \/ \E t \in Threads : IvEmit(t)
    \/ \E t \in Threads, fault \in EncryptFaults : WEncrypt(t, fault)
    \/ \E t \in Threads, fault \in OpenFaults : WOpen(t, fault)
    \/ \E t \in Threads, fault \in FwriteFaults :
          \E k \in ThreadCounts(t, fault) : WFwrite(t, fault, k)
    \/ \E k \in CrashCounts : Crash(k)

SpecConc == Init /\ [][NextConc]_vars


(* ------------- the nonce manager on a slot found on the device -------- *)
\* The slot holds any base and any counter when the process starts; sealed
\* writes and calls of getPlatformIV follow.
\* The data lengths sdoBlobWrite passes to getPlatformIV: its nBytes, which
\* is not above R_MAX_SIZE there.
DataLens == 1..R_MAX_SIZE

InitIV ==
    /\ files = [n \in AllNames |-> NoFile]
    /\ slot \in [init : {TRUE}, base : Nonces, counter : Nonces]
    /\ emitted = <<>>
    /\ stored = [n \in AllNames |-> NoBlob]
    /\ last = NoCall
    /\ pc = [t \in Threads |-> "idle"]
    /\ loc = [t \in Threads |-> NoLocals]
    /\ lock = 0
    /\ ps = NoProt
    /\ sdow = <<>>
    /\ fr = NoFrame
    /\ res = NoRes
    /\ doubleFree = FALSE

\* getPlatformIV for a payload of datalen bytes.
IvAdvance(datalen) ==
    LET r == getPlatformIV(slot, 0, datalen)
    IN  /\ last = NoCall
        /\ slot' = r.slot
        /\ emitted' = IF r.ok THEN Append(emitted, r.iv) ELSE emitted
        /\ last' = [NoCall EXCEPT !.op = "iv", !.n = datalen, !.iv = r.iv,
                                  !.ret = IF r.ok THEN 0 ELSE -1]
        /\ UNCHANGED <<ps, sdow, fr, res, doubleFree, files, stored, pc, loc, lock>>

NextIV ==
    \/ \E name \in Names, buf \in Payloads :
          \E fault \in WriteFaults(SDO_SDK_SECURE_DATA) :
            \E k \in ShortChoice(SDO_SDK_SECURE_DATA, buf, fault) :
                Write(name, SDO_SDK_SECURE_DATA, buf, fault, k, 0)
    \/ \E datalen \in DataLens : IvAdvance(datalen)
    \/ Restart

SpecIV == InitIV /\ [][NextIV]_vars


(* ------------------ the protocol state machine, by steps -------------- *)
\* The caller of the protocol functions assigns ps->state between calls (to
\* the first state of a protocol after its init function, for example).
SetState(s) ==
    /\ fr.pc = "idle"
    /\ ps.state # s
    /\ ps' = [ps EXCEPT !.state = s]
    /\ res' = NoRes
    /\ UNCHANGED <<sdow, fr, doubleFree>>
    /\ UNCHANGED storageVars

\* sdo_process_states is called: status = false, state_fn = NULL.
ProcessEnter ==
    /\ fr.pc = "idle"
    /\ fr' = [NoFrame EXCEPT !.pc = "loop"]
    /\ sdow' = <<>>
    /\ res' = NoRes
    /\ UNCHANGED <<ps, doubleFree>>
    /\ UNCHANGED storageVars

\* What an invocation of the state function in reach may do: fail or not,
\* leave ps->state, move it to the state after the one the function is
\* registered for, to SDO_STATE_DONE or to SDO_STATE_ERROR, and store data
\* in one field that is free.
NextStatesOf(fn) ==
    {ps.state, SDO_STATE_DONE, SDO_STATE_ERROR}
        \cup ({RegisteredFor(fn) + 1} \cap HandlerStates)
AllOutcomes == [ret : {0, -1}, next : ProtStates, alloc : {"none"} \cup FreeFields]
Outcomes ==
    LET fn == StateFn(ps.state, fr.state_fn)
    IN  IF fn = NoFn THEN {[ret |-> 0, next |-> ps.state, alloc |-> "none"]}
        ELSE {o \in AllOutcomes :
                /\ o.next \in NextStatesOf(fn)
                /\ o.alloc # "none" => ps.ptr[o.alloc] = "NULL"}

\* One iteration of the loop of sdo_process_states.
ProcessStep(o) ==
    LET r == ProcessIter(ps, fr, sdow, o)
    IN  /\ fr.pc = "loop"
        /\ o \in Outcomes
        /\ ps' = r.ps
        /\ fr' = r.fr
        /\ sdow' = r.sdow
        /\ doubleFree' = (doubleFree \/ r.doubleFree)
        /\ UNCHANGED res
        /\ UNCHANGED storageVars

\* The caller has the return value of sdo_process_states.
ProcessReturn ==
    /\ fr.pc = "ret"
    /\ fr' = NoFrame
    /\ UNCHANGED <<ps, sdow, res, doubleFree>>
    /\ UNCHANGED storageVars

NextProt ==
    \/ \E s \in ProtStates : SetState(s)
    \/ ProcessEnter
    \/ \E o \in AllOutcomes : ProcessStep(o)
    \/ ProcessReturn

SpecProt == Init /\ [][NextProt]_vars


(* ------------------ init functions and the round trip count ----------- *)
DIInit ==
    /\ fr.pc = "idle"
    /\ ps' = sdoProtDIInit(ps)
    /\ res' = [NoRes EXCEPT !.op = "DIInit"]
    /\ sdow' = <<>>
    /\ UNCHANGED <<fr, doubleFree>>
    /\ UNCHANGED storageVars

TO1Init(fault) ==
    LET r == sdoProtTO1Init(ps, fault)
    IN  /\ fr.pc = "idle"
        /\ ps' = r.ps
        /\ res' = [NoRes EXCEPT !.op = "TO1Init", !.ret = r.ret]
        /\ sdow' = <<>>
        /\ UNCHANGED <<fr, doubleFree>>
        /\ UNCHANGED storageVars

TO2Init(moduleList, fault) ==
    LET r == sdoProtTO2Init(ps, moduleList, fault)
    IN  /\ fr.pc = "idle"
        /\ ps' = r.ps
        /\ res' = [op |-> "TO2Init", ret |-> r.ret,
                   allocated |-> r.allocated, freed |-> r.freed]
        /\ sdow' = <<>>
        /\ UNCHANGED <<fr, doubleFree>>
        /\ UNCHANGED storageVars

CheckTO2RoundTrips ==
    LET r == sdoCheckTO2RoundTrips(ps, <<>>)
    IN  /\ fr.pc = "idle"
        /\ ps' = r.ps
        /\ res' = [NoRes EXCEPT !.op = "CheckTO2RoundTrips", !.ret = r.ret]
        /\ sdow' = r.sdow
        /\ UNCHANGED <<fr, doubleFree>>
        /\ UNCHANGED storageVars

\* The failures sdoProtTO2Init can meet: with no module list only the
\* allocation of iv.
TO2InitFaults(moduleList) ==
    IF moduleList THEN {"ok", "iv", "dsi", "start"} ELSE {"ok", "iv"}

NextTO2 ==
    \/ DIInit
    \/ \E fault \in {"ok", "null"} : TO1Init(fault)
    \/ \E moduleList \in BOOLEAN : \E fault \in TO2InitFaults(moduleList) :
          TO2Init(moduleList, fault)
    \/ CheckTO2RoundTrips
    \/ \E s \in ProtStates : SetState(s)

SpecTO2 == Init /\ [][NextTO2]_vars


(* ============================== claims ================================ *)
Range(s) == {s[i] : i \in 1..Len(s)}
\* The first n elements of s, all of s when it has fewer.
Prefix(s, n) == SubSeq(s, 1, IF n < Len(s) THEN n ELSE Len(s))
Distinct(s) == \A i, j \in 1..Len(s) : i # j => s[i] # s[j]

\* The blob last.name as the history knows it.
LastBlob == stored[last.name]
\* The last call was a read, with no platform failure, in the mode of the
\* last write of that name, which returned success; nothing was changed on
\* disk since.
ReadOfIntactBlob ==
    /\ last.op = "read"
    /\ last.fault = "ok"
    /\ LastBlob.kind \in Modes
    /\ LastBlob.kind = last.flags
    /\ LastBlob.flip = 0
\* The caller's buffer is as the caller passed it in.
BufferUntouched == \E f \in BufFills : last.buf = Fill(last.n, f)

\* C1: starting from an empty nonce slot, the nonces handed out by the nonce
\* manager over any sequence of sealed writes (failed ones included) are
\* pairwise distinct, and the nonce at the head of the frame a successful
\* sealed write has put on disk is the nonce handed out to that write.
C1_NoncesPairwiseDistinct ==
    /\ Distinct(emitted)
    /\ (last.op = "write" /\ last.flags = SDO_SDK_SECURE_DATA /\ last.ret >= 0) =>
          /\ Len(emitted) > 0
          /\ last.iv = emitted[Len(emitted)]
          /\ Len(files[last.name].bytes) >= PLATFORM_IV_DEFAULT_LEN =>
                Take(files[last.name].bytes, PLATFORM_IV_DEFAULT_LEN) = IvBytes(last.iv)

\* C1 witness: every nonce of the space has been handed out, sealed writes
\* that failed after the allocation among them, and the last write stored
\* its frame.
C1_Witness ==
    /\ Len(emitted) = NonceSpace
    /\ last.op = "write" /\ last.flags = SDO_SDK_SECURE_DATA /\ last.ret >= 0
    /\ last.iv # slot.base
    /\ FrameOnDisk(last.name)

\* Number of nonces the slot has been advanced over, the first included.
Advances(S) ==
    IF ~S.init THEN 0 ELSE ((S.counter - S.base + NonceSpace) % NonceSpace) + 1
\* Nonce n lies in the part of the cycle the slot records as used.
Persisted(n) ==
    /\ slot.init
    /\ n \in Nonces
    /\ ((n - slot.base + NonceSpace) % NonceSpace) < Advances(slot)
\* The nonce at the head of a sealed frame.
FrameNonce(bytes) ==
    bytes[PLATFORM_IV_DEFAULT_LEN - 1] * 256 + bytes[PLATFORM_IV_DEFAULT_LEN]
PastGetPlatformIV(t) == pc[t] \in {"key", "open", "fwrite"}

\* C2: a sealed write that is past getPlatformIV (about to encrypt, to open
\* or to write its file) holds a nonce the slot already records; so through
\* crashes at any step and restarts every nonce handed out and every nonce
\* at the head of a frame or frame prefix on disk is recorded in the slot,
\* and no nonce is handed out twice.
C2_PersistBeforeFrame ==
    /\ \A t \in Threads : PastGetPlatformIV(t) => Persisted(loc[t].iv)
    /\ \A i \in 1..Len(emitted) : Persisted(emitted[i])
    /\ \A t \in Threads :
          Len(files[ThreadName(t)].bytes) >= PLATFORM_IV_DEFAULT_LEN
              => /\ Persisted(FrameNonce(files[ThreadName(t)].bytes))
                 /\ FrameNonce(files[ThreadName(t)].bytes) \in Range(emitted)
    /\ Distinct(emitted)

\* C2 witness: the power went while thread 1 was inside fwrite and left a
\* frame prefix with its nonce; after the restart thread 2 has been given a
\* nonce and is about to encrypt.
C2_Witness ==
    /\ pc[1] = "idle" /\ loc[1].ret = 0 /\ pc[2] = "key"
    /\ Len(files[ThreadName(1)].bytes) = PLATFORM_IV_DEFAULT_LEN
    /\ loc[2].iv # FrameNonce(files[ThreadName(1)].bytes)
    /\ Len(emitted) >= 2

InsideSlot(t) == pc[t] \in {"read", "persist", "emit"}

\* C9: at most one thread is between reading the slot and handing out its
\* nonce, and it holds the lock; no nonce is handed out twice and no advance
\* is lost (the nonces handed out or about to be never outnumber the
\* advances the slot records).
C9_SlotSerialized ==
    /\ \A t, u \in Threads : (InsideSlot(t) /\ InsideSlot(u)) => t = u
    /\ \A t \in Threads : InsideSlot(t) => lock = t
    /\ Distinct(emitted)
    /\ Len(emitted) + Cardinality({t \in Threads : pc[t] = "emit"}) <= Advances(slot)

\* C9 witness: thread 1 has persisted its advance and holds the lock while
\* thread 2, whose earlier frame is on disk, waits for the lock.
C9_Witness ==
    /\ pc[1] = "emit" /\ lock = 1
    /\ pc[2] = "lock"
    /\ stored[ThreadName(2)].kind = SDO_SDK_SECURE_DATA
    /\ Len(emitted) >= 1

\* C3: once the slot is exhausted (a sealed write has failed for rollover)
\* it stays exhausted, every sealed write issued from then on fails without
\* a nonce and changes neither slot nor files, and a sealed read of a blob
\* written before, whose frame is on disk, still returns the payload.
C3_RolloverIsTerminal ==
    [][ /\ Exhausted(slot) => Exhausted(slot')
        /\ (Exhausted(slot) /\ last'.op = "write" /\ last'.flags = SDO_SDK_SECURE_DATA)
              => (last'.ret = -1 /\ last'.iv = -1 /\ slot' = slot /\ files' = files)
        /\ (Exhausted(slot) /\ last'.op = "read" /\ last'.fault = "ok"
                /\ last'.flags = SDO_SDK_SECURE_DATA
                /\ stored[last'.name].kind = SDO_SDK_SECURE_DATA
                /\ FrameOnDisk(last'.name)
                /\ stored[last'.name].flip = 0
                /\ Len(stored[last'.name].payload) <= last'.n /\ last'.n <= R_MAX_SIZE)
              => /\ last'.ret >= 0
                 /\ Take(last'.buf, Len(stored[last'.name].payload))
                        = stored[last'.name].payload
      ]_vars

\* C3 witness: a sealed write with good arguments has just been refused on
\* an exhausted slot while a sealed blob written earlier is on disk.
C3_Witness ==
    /\ Exhausted(slot)
    /\ Len(emitted) = NonceSpace
    /\ last.op = "write" /\ last.flags = SDO_SDK_SECURE_DATA /\ last.fault = "ok"
    /\ last.n \in 1..R_MAX_SIZE /\ last.ret = -1
    /\ LastBlob.kind = SDO_SDK_SECURE_DATA /\ FrameOnDisk(last.name)

\* C4 as stated, for the buffers sdoBlobRead accepts (no longer than
\* R_MAX_SIZE): after a successful write, a read in the same mode with a
\* buffer at least as long as the payload succeeds and delivers the payload.
C4_RoundTrip ==
    (ReadOfIntactBlob /\ Len(LastBlob.payload) <= last.n /\ last.n <= R_MAX_SIZE)
        => (last.ret >= 0 /\ Take(last.buf, Len(LastBlob.payload)) = LastBlob.payload)

\* C5: a read in Authenticated mode of an Authenticated blob one of whose
\* payload bytes was changed on disk fails, whatever the buffer, and hands
\* no data to the caller.
C5_AuthenticatedTamperDetected ==
    (/\ last.op = "read" /\ last.flags = SDO_SDK_NORMAL_DATA
     /\ LastBlob.kind = SDO_SDK_NORMAL_DATA /\ LastBlob.flip > NormalHdr)
        => (last.ret = -1 /\ BufferUntouched)

\* C5 witness: such a read, with a buffer that fits and no platform failure.
C5_Witness ==
    /\ last.op = "read" /\ last.flags = SDO_SDK_NORMAL_DATA /\ last.fault = "ok"
    /\ LastBlob.kind = SDO_SDK_NORMAL_DATA /\ LastBlob.flip > NormalHdr
    /\ last.n = Len(LastBlob.payload) /\ last.ret = -1

\* The changed byte of a sealed frame lies in the nonce, the tag or the
\* ciphertext (not in the length field).
SealedFlipCovered(off) ==
    \/ off \in 1..(PLATFORM_IV_DEFAULT_LEN + PLATFORM_GCM_TAG_SIZE)
    \/ off > SecureHdr

\* C6: a read in Sealed mode of a Sealed blob one byte of whose nonce, tag
\* or ciphertext was changed on disk fails and hands no data to the caller.
C6_SealedTamperDetected ==
    (/\ last.op = "read" /\ last.flags = SDO_SDK_SECURE_DATA
     /\ LastBlob.kind = SDO_SDK_SECURE_DATA /\ SealedFlipCovered(LastBlob.flip))
        => (last.ret = -1 /\ BufferUntouched)

\* C6 witness: such a read for a changed nonce byte.
C6_Witness ==
    /\ last.op = "read" /\ last.flags = SDO_SDK_SECURE_DATA /\ last.fault = "ok"
    /\ LastBlob.kind = SDO_SDK_SECURE_DATA
    /\ LastBlob.flip \in 1..PLATFORM_IV_DEFAULT_LEN
    /\ last.n = Len(LastBlob.payload) /\ last.ret = -1

\* The last call was a read that got as far as the verification of the MAC
\* or of the GCM tag and failed there.
ReadFailedVerification ==
    /\ last.op = "read" /\ last.fault = "ok" /\ last.ret = -1
    /\ Len(LastBlob.payload) <= last.n /\ last.n <= R_MAX_SIZE
    /\ \/ /\ last.flags = SDO_SDK_NORMAL_DATA /\ LastBlob.kind = SDO_SDK_NORMAL_DATA
          /\ LastBlob.flip > NormalHdr
       \/ /\ last.flags = SDO_SDK_SECURE_DATA /\ LastBlob.kind = SDO_SDK_SECURE_DATA
          /\ SealedFlipCovered(LastBlob.flip)

\* C7 as stated: when a read fails the verification of the MAC or of the
\* tag, the caller's buffer is all zero on return.
C7_BufferZeroizedOnAuthFailure ==
    ReadFailedVerification => IsZero(last.buf)

\* C8: a sealed write that fails after its nonce was allocated leaves the
\* slot at that nonce, which had not been handed out before; no call hands
\* out more than one nonce or moves the counter by more than one step.
C8_FailedWriteConsumesNonce ==
    [][ /\ Len(emitted') <= Len(emitted) + 1
        /\ slot.init => slot'.counter \in {slot.counter, (slot.counter + 1) % NonceSpace}
        /\ (last'.op = "write" /\ last'.flags = SDO_SDK_SECURE_DATA
                /\ last'.ret = -1 /\ last'.iv # -1)
              => /\ slot'.init /\ slot'.counter = last'.iv
                 /\ emitted' = Append(emitted, last'.iv)
                 /\ last'.iv \notin Range(emitted)
      ]_vars

\* C8 witness: a sealed write has failed for want of the key after a nonce
\* was allocated, and a retry of it has failed at fopen with the next nonce.
C8_Witness ==
    /\ last.op = "write" /\ last.flags = SDO_SDK_SECURE_DATA /\ last.fault = "open"
    /\ last.ret = -1 /\ last.iv # -1
    /\ Len(emitted) >= 2
    /\ LastBlob.kind = "NONE"

\* C10 as stated: a write that returns an error leaves the blob file as it
\* was.
C10_FailedWriteLeavesFile ==
    [][ (last'.op = "write" /\ last'.ret < 0) => files' = files ]_vars

\* C10 amended: a write that returns an error without having opened the
\* file (rejected arguments, a failure before fopen, a failing fopen) leaves
\* the blob file as it was; after a short fwrite the file is a proper prefix
\* of the new frame.
C10_FailureBeforeOpenLeavesFile ==
    [][ /\ (last'.op = "write" /\ last'.ret < 0 /\ last'.fault \notin {"short", "wipe"})
              => files' = files
        /\ (last'.op = "write" /\ last'.fault = "short" /\ files' # files)
              => /\ last'.ret < 0
                 /\ Len(files'[last'.name].bytes)
                        < writeContextLen(last'.flags, last'.n)
      ]_vars

\* C10 witness: fopen has failed on a write over a blob stored earlier,
\* which is still there.
C10_Witness ==
    /\ last.op = "write" /\ last.fault = "open" /\ last.ret < 0
    /\ last.n \in 1..R_MAX_SIZE /\ last.flags \in Modes
    /\ LastBlob.kind \in Modes

\* C11 as stated: a successful read returns the length of the stored
\* payload, also when the buffer is longer.
C11_ReadReturnsPayloadLength ==
    (ReadOfIntactBlob /\ last.ret >= 0) => last.ret = Len(LastBlob.payload)

\* C12 as stated: a read in the mode of the write with a buffer shorter than
\* the payload stored in the file fails, in each of the three modes, and
\* leaves the buffer as it was.
C12_ShortBufferRejected ==
    (/\ last.op = "read"
     /\ LastBlob.kind \in Modes /\ LastBlob.kind = last.flags /\ LastBlob.flip = 0
     /\ FrameOnDisk(last.name)
     /\ last.n < Len(LastBlob.payload))
        => (last.ret = -1 /\ BufferUntouched)

\* C13 as stated: size, called with a name, returns 0 when the file does not
\* exist and the payload length after a successful write in the same mode.
C13_SizeOfWrittenBlob ==
    (last.op = "size" /\ last.fault = "ok" /\ last.flags \in Modes) =>
        /\ ~files[last.name].exists => last.ret = 0
        /\ LastBlob.kind = last.flags =>
              /\ last.ret = Len(LastBlob.payload)
              /\ last.ret = Len(files[last.name].bytes)
                    - (CASE last.flags = SDO_SDK_RAW_DATA -> 0
                         [] last.flags = SDO_SDK_NORMAL_DATA -> 36
                         [] last.flags = SDO_SDK_SECURE_DATA -> 32)

\* C14 as stated: size returns -1 or a length in 0..R_MAX_SIZE, whatever the
\* length of the file and the mode: -1 for an Authenticated file shorter
\* than 36 bytes and for a Sealed file shorter than 32, and -1 for a length
\* above R_MAX_SIZE.
C14_SizeIsLengthOrMinusOne ==
    (last.op = "size" /\ last.fault = "ok") =>
        LET n == Len(files[last.name].bytes)
        IN  /\ last.ret = -1 \/ last.ret \in 0..R_MAX_SIZE
            /\ (files[last.name].exists /\ last.flags = SDO_SDK_NORMAL_DATA
                    /\ (n < NormalHdr \/ n - NormalHdr > R_MAX_SIZE)) => last.ret = -1
            /\ (files[last.name].exists /\ last.flags = SDO_SDK_SECURE_DATA
                    /\ (n < SecureHdr \/ n - SecureHdr > R_MAX_SIZE)) => last.ret = -1
            /\ (files[last.name].exists /\ last.flags = SDO_SDK_RAW_DATA
                    /\ n > R_MAX_SIZE) => last.ret = -1

\* C15: a write of no bytes or of more than R_MAX_SIZE bytes returns -1 in
\* every mode and changes neither the files nor the nonce slot, and no nonce
\* is handed out.
C15_BadLengthWriteHasNoEffect ==
    [][ (last'.op = "write" /\ (last'.n = 0 \/ last'.n > R_MAX_SIZE))
            => /\ last'.ret = -1 /\ last'.iv = -1
               /\ files' = files /\ slot' = slot /\ emitted' = emitted
      ]_vars

\* C15 witness: an oversized sealed write over an existing blob, with the
\* slot in use, has been refused.
C15_Witness ==
    /\ last.op = "write" /\ last.flags = SDO_SDK_SECURE_DATA /\ last.fault = "ok"
    /\ last.n > R_MAX_SIZE /\ last.ret = -1
    /\ LastBlob.kind = SDO_SDK_SECURE_DATA /\ slot.init

\* C16 as stated: a successful write of n bytes returns n and leaves a file
\* of n, 32+4+n or 12+16+4+n bytes whose big-endian length field holds n.
C16_FrameLengths ==
    (last.op = "write" /\ last.ret >= 0) =>
        LET f == files[last.name].bytes
        IN  /\ last.ret = last.n
            /\ last.flags = SDO_SDK_RAW_DATA => Len(f) = last.n
            /\ last.flags = SDO_SDK_NORMAL_DATA =>
                  /\ Len(f) = 32 + 4 + last.n
                  /\ <<f[33], f[34], f[35], f[36]>> = <<0, 0, 0, last.n>>
            /\ last.flags = SDO_SDK_SECURE_DATA =>
                  /\ Len(f) = 12 + 16 + 4 + last.n
                  /\ <<f[29], f[30], f[31], f[32]>> = <<0, 0, 0, last.n>>

C18_UnknownModeIsError ==
    [][ (last'.op \in {"size", "read", "write"} /\ last'.flags \notin Modes)
            => (last'.ret = -1 /\ files' = files /\ slot' = slot)
      ]_vars

\* C18 amended: read and write with a mode other than the three return -1,
\* size does so when the file exists or no name is passed and returns 0 for
\* the name of a file that does not exist; none changes files or slot.
C18_UnknownMode ==
    [][ (last'.op \in {"size", "read", "write"} /\ last'.flags \notin Modes)
            => /\ files' = files /\ slot' = slot /\ emitted' = emitted
               /\ last'.op # "size" => last'.ret = -1
               /\ last'.op = "size" =>
                     last'.ret = IF last'.fault = "null" \/ files[last'.name].exists
                                 THEN -1 ELSE 0
      ]_vars

\* C18 witness: a read with an unknown mode of an existing blob, with good
\* buffer and no platform failure, has been refused.
C18_Witness ==
    /\ last.op = "read" /\ last.flags = SDO_SDK_OTP_DATA /\ last.fault = "ok"
    /\ last.n \in 1..R_MAX_SIZE /\ last.ret = -1
    /\ LastBlob.kind = SDO_SDK_RAW_DATA

\* C19 as stated: once the slot is initialized its counter is not below its
\* base.
C19_CounterNotBelowBase ==
    slot.init => slot.counter >= slot.base

\* C19 amended: the counter is the base advanced, modulo the size of the
\* nonce space, by the number of nonces handed out after the first; it is
\* not below the base exactly as long as it has not wrapped past the
\* largest nonce.
C19_CounterFollowsBase ==
    /\ ~slot.init => emitted = <<>>
    /\ slot.init =>
          /\ Len(emitted) \in 1..NonceSpace
          /\ slot.counter = (slot.base + Len(emitted) - 1) % NonceSpace
          /\ slot.counter >= slot.base <=> slot.base + Len(emitted) - 1 < NonceSpace

\* C19 witness: after a sealed write the counter has wrapped and is below
\* the random base.
C19_Witness ==
    /\ slot.init /\ slot.counter < slot.base
    /\ last.op = "write" /\ last.flags = SDO_SDK_SECURE_DATA /\ last.ret >= 0
    /\ last.iv = slot.counter

\* Nonces left between the counter and the base, going forward.
Unused(S) == NonceSpace - 1 - ((S.counter - S.base + NonceSpace) % NonceSpace)

\* C20: on an initialized slot a call of getPlatformIV is refused exactly
\* when its step exceeds the number of nonces left before base (the advance
\* would land on base or jump over it); a refusal leaves the slot, an
\* accepted call hands out counter + step modulo the size of the nonce
\* space; a sealed write that reaches getPlatformIV is refused exactly when
\* no nonce is left.
C20_RefusedExactlyOnRollover ==
    [][ /\ last'.op = "iv" =>
              /\ last'.ret = -1 <=> IvStep(last'.n) > Unused(slot)
              /\ last'.ret = -1 => (slot' = slot /\ emitted' = emitted /\ last'.iv = -1)
              /\ last'.ret # -1 =>
                    /\ last'.iv = (slot.counter + IvStep(last'.n)) % NonceSpace
                    /\ slot' = [slot EXCEPT !.counter = last'.iv]
        /\ (last'.op = "write" /\ last'.flags = SDO_SDK_SECURE_DATA
                /\ last'.n \in 1..R_MAX_SIZE /\ last'.fault \notin {"null", "alloc"})
              => /\ last'.iv = -1 <=> Unused(slot) = 0
                 /\ last'.iv # -1 => last'.iv = (slot.counter + 1) % NonceSpace
      ]_vars

\* C20 witness: on a slot with base 0 the last nonce before base has been
\* handed out to a sealed write, and the call of getPlatformIV that followed
\* has been refused.
C20_Witness ==
    /\ slot.init /\ slot.base = 0 /\ slot.counter = NonceSpace - 1
    /\ Len(emitted) >= 1 /\ emitted[Len(emitted)] = NonceSpace - 1
    /\ last.op = "iv" /\ last.ret = -1 /\ last.iv = -1

\* The last step was a sealed write that got a nonce from the slot.
SealedWriteGotNonce ==
    last'.op = "write" /\ last'.flags = SDO_SDK_SECURE_DATA /\ last'.iv # -1

\* C21: on an initialized slot every sealed write that is given a nonce (its
\* payload is within R_MAX_SIZE, hence below 2^32 cipher blocks) advances the
\* counter by exactly 1 modulo the size of the nonce space and is given the
\* new counter as its nonce; no step ever changes the base of an initialized
\* slot.
C21_ActiveAdvancesByOne ==
    [][ /\ slot.init => (slot'.init /\ slot'.base = slot.base)
        /\ (slot.init /\ SealedWriteGotNonce) =>
              /\ last'.n \in 1..R_MAX_SIZE
              /\ IvStep(last'.n) = 1
              /\ slot'.counter = (slot.counter + 1) % NonceSpace
              /\ last'.iv = slot'.counter
              /\ emitted' = Append(emitted, slot'.counter)
      ]_vars

\* C21 witness: two sealed writes in a row have advanced the counter by one
\* each, past the largest nonce, and the second has stored its blob; base is
\* where it was.
C21_Witness ==
    /\ last.op = "write" /\ last.flags = SDO_SDK_SECURE_DATA /\ last.ret = R_MAX_SIZE
    /\ Len(emitted) = 2
    /\ emitted[2] = (emitted[1] + 1) % NonceSpace
    /\ emitted[1] = (slot.base + 1) % NonceSpace
    /\ last.iv = slot.counter /\ slot.counter = emitted[2]
    /\ slot.counter < slot.base

\* C22 as stated: after every successful sealed write the first
\* PLATFORM_IV_DEFAULT_LEN bytes of the frame just written are the counter of
\* the nonce slot; when the slot was empty before the write, base and counter
\* of the slot are both that value afterwards.
C22_FrameStartsWithCounter ==
    [][ (last'.op = "write" /\ last'.flags = SDO_SDK_SECURE_DATA /\ last'.ret >= 0) =>
          /\ slot'.init
          /\ Prefix(files'[last'.name].bytes, PLATFORM_IV_DEFAULT_LEN) = IvBytes(slot'.counter)
          /\ ~slot.init =>
                /\ slot'.base = slot'.counter
                /\ Prefix(files'[last'.name].bytes, PLATFORM_IV_DEFAULT_LEN) = IvBytes(slot'.base)
      ]_vars

\* The length field of the blob last.name was changed on disk.
LenFieldChanged ==
    /\ LastBlob.kind \in {SDO_SDK_NORMAL_DATA, SDO_SDK_SECURE_DATA}
    /\ LastBlob.flip \in (LenOffset(LastBlob.kind) + 1)..(LenOffset(LastBlob.kind) + BLOB_CONTENT_SIZE)
\* The length the frame of last.name declares now.
DeclaredLen == LenValue(LoadLen(files[last.name].bytes, LenOffset(LastBlob.kind)))

\* C23: a read, in its own mode, of an authenticated or sealed blob whose
\* length field was changed on disk to another value, larger or smaller,
\* fails for every buffer size and leaves the caller's buffer as it was.
C23_ChangedLengthFieldRejected ==
    (last.op = "read" /\ last.flags = LastBlob.kind /\ LenFieldChanged)
        => /\ DeclaredLen # Len(LastBlob.payload)
           /\ last.ret = -1
           /\ BufferUntouched

\* C23 witness: the length field of a sealed blob of R_MAX_SIZE bytes was
\* lowered by one; a read with a buffer of R_MAX_SIZE bytes, enough for both
\* lengths, and no platform failure has failed.
C23_Witness ==
    /\ last.op = "read" /\ last.flags = SDO_SDK_SECURE_DATA /\ last.fault = "ok"
    /\ LastBlob.kind = SDO_SDK_SECURE_DATA /\ LenFieldChanged
    /\ Len(LastBlob.payload) = R_MAX_SIZE
    /\ DeclaredLen = R_MAX_SIZE - 1
    /\ last.n = R_MAX_SIZE /\ last.ret = -1

\* What the call recorded in c returns when it is made on the files F and
\* the slot S.
ResultOn(F, S, c) ==
    IF c.op = "size"
    THEN [ret |-> sdoBlobSize(F, S, c.name, c.flags, c.fault, c.rmax).retval, buf |-> <<>>]
    ELSE LET r == sdoBlobRead(F, S, c.name, c.flags,
                              Fill(c.n, CHOOSE f \in BufFills : TRUE), c.n, c.fault)
         IN  [ret |-> r.retval, buf |-> r.buf]

\* C24: a size or a read, in any mode and whatever it returns, leaves every
\* file and the nonce slot as they were; the same call made again on what it
\* left (same buffer size, same buffer content, same platform behaviour)
\* returns the same value and the same buffer.
C24_SizeAndReadChangeNothing ==
    [][ last'.op \in {"size", "read"} =>
          /\ files' = files
          /\ slot' = slot
          /\ ResultOn(files', slot', last') = [ret |-> last'.ret, buf |-> last'.buf]
      ]_vars

\* C24 witness: a sealed blob was written and has been read back in full;
\* file and slot are those the write left.
C24_Witness ==
    /\ last.op = "read" /\ last.flags = SDO_SDK_SECURE_DATA /\ last.fault = "ok"
    /\ LastBlob.kind = SDO_SDK_SECURE_DATA /\ LastBlob.flip = 0
    /\ Len(LastBlob.payload) = R_MAX_SIZE
    /\ last.ret = R_MAX_SIZE /\ last.buf = LastBlob.payload
    /\ Len(files[last.name].bytes) = SecureHdr + R_MAX_SIZE
    /\ slot.init /\ Take(files[last.name].bytes, PLATFORM_IV_DEFAULT_LEN) = IvBytes(slot.counter)

\* C25: when sdo_process_states has returned, its result is true exactly
\* when the last state function it invoked returned success and left
\* ps->state as it was at that call; when that function reported an error
\* the result is false and ps->state is SDO_STATE_ERROR; a call entered with
\* a state that has no state function returns false at once, invokes no
\* state function and changes neither ps nor the outgoing blocks.
C25_ReturnValue ==
    [][ /\ fr'.pc = "ret" =>
              /\ fr'.status <=> /\ fr'.called # NoInv
                                /\ fr'.called.ret = 0
                                /\ ps'.state = fr'.called.at
              /\ (fr'.called # NoInv /\ fr'.called.ret # 0) =>
                    (~fr'.status /\ ps'.state = SDO_STATE_ERROR)
        /\ (fr.pc = "idle" /\ fr'.pc = "loop") => (ps' = ps /\ fr'.called = NoInv)
        /\ (fr.pc = "loop" /\ fr.called = NoInv /\ ps.state \in NoHandlerStates) =>
              /\ fr'.pc = "ret" /\ ~fr'.status /\ fr'.called = NoInv
              /\ ps' = ps /\ sdow' = sdow /\ doubleFree' = doubleFree
      ]_vars

\* C25 witness: a call has returned true: the state function of
\* SDO_STATE_TO2_RCV_DONE_2 was the last one invoked, it returned success and
\* left the state, and data of earlier messages is kept in ps.
C25_Witness ==
    /\ fr.pc = "ret" /\ fr.status
    /\ ps.state = SDO_STATE_TO2_RCV_DONE_2
    /\ fr.called = [fn |-> "msg51", at |-> SDO_STATE_TO2_RCV_DONE_2, ret |-> 0]
    /\ ps.ptr["n7r"] = "live"

\* Every field ps_free is in charge of is NULL.
AllFreed(P) == \A f \in FreeFields : P.ptr[f] = "NULL"

\* C26 as stated: when sdo_process_states has returned after a state
\* function reported an error, or after ps->state went from
\* SDO_STATE_TO2_RCV_DONE_2 to SDO_STATE_DONE, the fields ps_free is in
\* charge of are all NULL and nothing was freed twice.
C26_AllNullOnBothExits ==
    (fr.pc = "ret" /\ (fr.called.ret # 0 \/ fr.completed))
        => (AllFreed(ps) /\ ~doubleFree)

\* C27 as stated: sdoCheckTO2RoundTrips has returned true at most
\* MAX_TO2_ROUND_TRIPS times since sdoProtTO2Init, so that RoundTripCount is
\* never above MAX_TO2_ROUND_TRIPS; a call that returns false leaves
\* ps->state at SDO_STATE_ERROR and has written one error block.
C27_RoundTripsWithinLimit ==
    /\ ps.RoundTripCount <= MAX_TO2_ROUND_TRIPS
    /\ (res.op = "CheckTO2RoundTrips" /\ ~res.ret) =>
          (ps.state = SDO_STATE_ERROR /\ Len(sdow) = 1)

\* C28 as stated: every state function sdo_process_states has invoked was
\* invoked in a state that has a state function, and is the one the tables
\* register for that state.
C28_OnlyRegisteredHandlerInvoked ==
    fr.called # NoInv =>
        /\ fr.called.at \in HandlerStates
        /\ fr.called.fn = StateFn(fr.called.at, NoFn)

\* C29 as stated: when sdo_process_states has returned after a state function
\* failed, it has written one error block, whose emsg is the state whose
\* state function failed, the state named in the text of the block, and not
\* SDO_STATE_ERROR.
C29_ErrorMessageNamesFailedState ==
    (fr.pc = "ret" /\ fr.called.ret # 0) =>
        /\ Len(sdow) = 1
        /\ sdow[1].emsg = sdow[1].em.msg
        /\ sdow[1].emsg # SDO_STATE_ERROR

\* C30 as stated: when sdoProtTO2Init has returned false, each buffer it
\* allocated in that call has been freed, and neither ps->iv nor
\* ps->dsiInfo points to freed memory.
C30_FailedInitLeavesNothing ==
    (res.op = "TO2Init" /\ ~res.ret) =>
        /\ res.allocated \subseteq res.freed
        /\ \A f \in InitFields : ps.ptr[f] # "freed"


====
